---- MODULE Spec2Model ----
(***************************************************************************)
(* Value finder of the college-basketball matchup analyzer                 *)
(* (src/scripts/value_finder.py, src/scripts/odds_client.py).              *)
(*                                                                         *)
(* Number representation (fixed point, all integers):                      *)
(*   points, lines, margins, standard deviations : tenths of a point       *)
(*   probabilities, edges, Kelly fractions       : thousandths (0..1000)   *)
(*   safety scores                               : 1/100000                *)
(*   American odds                               : the integer itself      *)
(* An Optional[float] is a sequence: <<>> is None, <<x>> is the value x.   *)
(***************************************************************************)
EXTENDS Integers, Sequences, FiniteSets, TLC

VARIABLES
    \* ---- one analysis call (quick_analysis.py:142, app.py:647) ----
    projection,         \* the MatchupProjection handed to the analyzer, <<>> before a call
    game_odds,          \* the GameOdds handed to the analyzer, <<>> before a call
    fn,                 \* which entry point ran: "all_books", "consensus" or "none"
    bets,               \* the list the analyzer returned
    \* ---- the batch pipeline (daily_analysis.py:105-160, app.py:704-723) ----
    caller,             \* "app" (keeps every bet), "daily" (keeps good_bets only) or
                        \* "any" (a caller whose list is not in analyzer order)
    heap,               \* the BetOpportunity objects alive, by identity (index)
    emitted,            \* every object as the analyzer emitted it (history)
    all_opportunities,  \* the caller's list: object identities
    next_game,          \* index in Slate of the next game of the loop
    top_n,              \* the top_n select_best_bets was called with
    assigned,           \* identities select_best_bets assigned category to, in order (history)
    results,            \* the list select_best_bets returned: object identities
    pc,                 \* "loop", "selected"
    \* ---- concurrent invocations of select_best_bets on one heap ----
    invocations,        \* per worker: its input list, where it is, what it returned
    \* ---- the stats pipeline of one team (stats_builder.py) ----
    schedule,           \* the events ESPN lists for the team
    cache,              \* the team's CSV in data/seasons: <<>> or <<file>>
    game_log,           \* the DataFrame get_or_fetch_team_season returned
    log_source,         \* "fetch" or "cache": where game_log came from (history)
    raw_profile,        \* outcome of build_team_profile without opponent_profiles
    opp_map,            \* the opponent_profiles of the second pass
    sos_profile,        \* outcome of build_team_profile with opponent_profiles
    stats_pc,           \* "start", "fetched", "refetched", "raw", "built"
    \* ---- the try/except of the batch loop (daily_analysis.py:111-153) ----
    stage,              \* where the body of the current game is: an element of LoopStages
    loop_proj,          \* the projection of the current game, <<>> before it is made
    game_outcomes,      \* per game processed: how its body ended and the bets kept (history)
    \* ---- one call of a numeric function ----
    fn_call,            \* <<function name, arguments...>>, <<>> before the call
    fn_result,          \* what the call returned
    \* ---- build_cache_parallel (parallel_cache_builder.py:61-97) ----
    teams,              \* the team_info list it was called with
    max_workers,        \* the size of the thread pool
    futures,            \* per task submitted: queued, running or done, and what it returned
    success_count,
    fail_count,
    pool_pc,            \* "idle", "submit", "collect", "done", "returned"
    \* ---- the picks database (pick_tracker.py, result_scraper.py) ----
    picks,              \* the rows of table picks, in id order
    last_run,           \* the date and the scoreboard of the last update_pick_results (history)
    summary             \* <<what the last get_performance_summary returned or raised>>, <<>> before any

vars == <<projection, game_odds, fn, bets, caller, heap, emitted,
          all_opportunities, next_game, top_n, assigned, results, pc, invocations,
          schedule, cache, game_log, log_source, raw_profile, opp_map, sos_profile,
          stats_pc, stage, loop_proj, game_outcomes, fn_call, fn_result,
          teams, max_workers, futures, success_count, fail_count, pool_pc,
          picks, last_run, summary>>

analysisVars == <<projection, game_odds, fn, bets>>
batchVars == <<caller, heap, emitted, all_opportunities, next_game, top_n,
               assigned, results, pc>>
concVars == <<invocations>>
statsVars == <<schedule, cache, game_log, log_source, raw_profile, opp_map,
               sos_profile, stats_pc>>

loopVars == <<stage, loop_proj, game_outcomes>>

pureVars == <<fn_call, fn_result>>

poolVars == <<teams, max_workers, futures, success_count, fail_count, pool_pc>>

\* The cache builder and the pick tracker.
trackerVars == <<picks, last_run, summary>>

lastVars == <<poolVars, trackerVars>>

\* What the value-finder specifications leave alone.
laterVars == <<statsVars, loopVars, pureVars, lastVars>>

\* What the stats pipeline leaves alone.
notStatsVars == <<analysisVars, batchVars, concVars, loopVars, pureVars, lastVars>>

\* What a call of a numeric function leaves alone.
notPureVars == <<analysisVars, batchVars, concVars, statsVars, loopVars, lastVars>>

\* What the cache builder leaves alone.
notPoolVars == <<analysisVars, batchVars, concVars, statsVars, loopVars, pureVars, trackerVars>>

\* What the pick tracker leaves alone.
notTrackerVars == <<analysisVars, batchVars, concVars, statsVars, loopVars, pureVars, poolVars>>

----------------------------------------------------------------------------
(* Generic helpers *)

Abs(x) == IF x < 0 THEN -x ELSE x

Min(a, b) == IF a <= b THEN a ELSE b

Max(a, b) == IF a >= b THEN a ELSE b

\* Python's true division a / b for b > 0, rounded to the nearest unit
\* (halves away from zero), so that Div(-a, b) = -Div(a, b).
Div(a, b) == IF a >= 0 THEN (2 * a + b) \div (2 * b) ELSE -((2 * (-a) + b) \div (2 * b))

Range(s) == {s[i] : i \in 1..Len(s)}

\* s[:n] of Python, n >= 0 or negative.
Slice(s, n) ==
    IF n >= 0 THEN SubSeq(s, 1, Min(n, Len(s)))
    ELSE SubSeq(s, 1, Max(Len(s) + n, 0))

----------------------------------------------------------------------------
(* odds_client.py: the market data *)

OddsOutcome(name, price, point) == [name |-> name, price |-> price, point |-> point]

OddsMarket(key, outcomes) == [key |-> key, outcomes |-> outcomes]

BookmakerOdds(title, markets) == [title |-> title, markets |-> markets]

GameOdds(home, away, bookmakers) ==
    [home_team |-> home, away_team |-> away, bookmakers |-> bookmakers]

\* GameOdds.get_all_book_lines: every (bookmaker title, market) of that key,
\* bookmakers in order, markets in order within a bookmaker.
get_all_book_lines(go, market_key) ==
    LET perBook(bk) ==
            LET f[i \in 0..Len(bk.markets)] ==
                    IF i = 0 THEN <<>>
                    ELSE IF bk.markets[i].key = market_key
                         THEN Append(f[i - 1], <<bk.title, bk.markets[i]>>)
                         ELSE f[i - 1]
            IN f[Len(bk.markets)]
        g[i \in 0..Len(go.bookmakers)] ==
            IF i = 0 THEN <<>> ELSE g[i - 1] \o perBook(go.bookmakers[i])
    IN g[Len(go.bookmakers)]

\* GameOdds.get_consensus_line: the first bookmaker's market of that key, as
\* <<title, market>>, or <<>> for None.  (analyze_game_value finds the title
\* by identity of the market object, lines 356-363: the same bookmaker.)
get_consensus_line(go, market_key) ==
    LET all == get_all_book_lines(go, market_key)
    IN IF all = <<>> THEN <<>> ELSE <<all[1]>>

----------------------------------------------------------------------------
(* value_finder.py: the numeric core *)

\* scipy.stats.norm.cdf(num / den) for den > 0, in thousandths.  The table
\* holds Phi at the midpoint of each tenth of |z|; Phi(0) = 0.5 exactly and
\* Phi(-z) = 1 - Phi(z).
PhiTable ==
    <<520, 560, 599, 637, 674, 709, 742, 773, 802, 829,
      853, 875, 894, 911, 926, 939, 951, 960, 968, 974,
      980, 984, 988, 991, 993, 995, 996, 997, 998, 998, 999>>

NormCdf(num, den) ==
    LET k == Min((10 * Abs(num)) \div den, Len(PhiTable) - 1)
    IN IF num = 0 THEN 500
       ELSE IF num > 0 THEN PhiTable[k + 1]
       ELSE 1000 - PhiTable[k + 1]

StdFallback == 100

american_to_implied_prob(odds) ==
    IF odds < 0 THEN Div(1000 * Abs(odds), Abs(odds) + 100)
    ELSE Div(1000 * 100, odds + 100)

compute_model_win_prob(model_value, book_line, std_dev) ==
    LET sd == IF std_dev <= 0 THEN StdFallback ELSE std_dev
    IN NormCdf(model_value - book_line, sd)

MaxFraction == 50

\* Mutant: the fraction floored at 0 but not capped at max_fraction.
compute_kelly_fraction_uncapped(model_win_prob, odds) ==
    LET p == model_win_prob
        q == 1000 - p
        kelly == IF odds < 0 THEN p - Div(q * Abs(odds), 100)
                 ELSE p - Div(q * 100, odds)
    IN IF odds = 0 THEN 0 ELSE Max(0, kelly)

\* kelly = (b*p - q)/b = p - q/b with b = 100/|odds| (odds < 0) or odds/100.
compute_kelly_fraction(model_win_prob, odds) ==
    LET p == model_win_prob
        q == 1000 - p
        kelly == IF odds < 0 THEN p - Div(q * Abs(odds), 100)
                 ELSE p - Div(q * 100, odds)
    IN IF odds = 0 THEN 0
       ELSE Max(0, Min(kelly, MaxFraction))

PreferredLow == -400

PreferredHigh == -250

is_preferred_range(odds) == PreferredLow <= odds /\ odds <= PreferredHigh

\* The score without the preferred-range bonus.
compute_safety_score_no_bonus(bet) ==
    60 * bet.model_win_prob + 25 * bet.edge_pct

\* 0.60*win_prob + 0.25*edge + 0.15*bonus, in 1/100000.
compute_safety_score(bet) ==
    60 * bet.model_win_prob + 25 * bet.edge_pct
        + 15 * (IF bet.in_preferred_range THEN 1000 ELSE 0)

confidence(edge_pct) ==
    IF edge_pct >= 100 THEN "high"
    ELSE IF edge_pct >= 50 THEN "medium"
    ELSE "low"

----------------------------------------------------------------------------
(* matchup_model.py: the projection the analyzers read *)

\* MatchupProjection, the fields value_finder.py reads; proj_total and
\* proj_spread as project_matchup derives them from the two point projections.
MatchupProjection(home, away, home_pts, away_pts, std) ==
    [home_team |-> home, away_team |-> away,
     home_pts |-> home_pts, away_pts |-> away_pts,
     proj_total |-> home_pts + away_pts,
     proj_spread |-> away_pts - home_pts,
     total_std |-> std, spread_std |-> std]

\* f"{proj.home_team} vs {proj.away_team}"
game_label(proj) == <<proj.home_team, "vs", proj.away_team>>

----------------------------------------------------------------------------
(* value_finder.py: one BetOpportunity per outcome *)

\* The BetOpportunity constructor followed by
\* bet.safety_score = compute_safety_score(bet); reasoning (free text) is
\* left out.
BetOpportunity(proj, bet_type, bet_side, book_line, oc, model_projection, edge_pts, model_prob, title) ==
    LET implied == american_to_implied_prob(oc.price)
        edge == model_prob - implied
        bet == [game |-> game_label(proj),
                bet_type |-> bet_type,
                bet_side |-> bet_side,
                book_line |-> book_line,
                book_odds |-> oc.price,
                model_projection |-> model_projection,
                edge_points |-> edge_pts,
                edge_pct |-> edge,
                model_win_prob |-> model_prob,
                implied_prob |-> implied,
                confidence |-> confidence(edge),
                category |-> "",
                bookmaker |-> title,
                kelly_fraction |-> compute_kelly_fraction(model_prob, oc.price),
                safety_score |-> 0,
                in_preferred_range |-> is_preferred_range(oc.price)]
    IN [bet EXCEPT !.safety_score = compute_safety_score(bet)]

\* Lines 122-180 of _analyze_spread_for_book: the bets of an outcome that
\* has a line.
spread_bets_with_line(proj, go, title, oc) ==
    IF oc.name = go.home_team THEN
        LET model_margin == proj.home_pts - proj.away_pts
            book_margin == -oc.point[1]
        IN <<BetOpportunity(proj, "spread", "home", oc.point[1], oc, proj.proj_spread,
                model_margin - book_margin,
                compute_model_win_prob(model_margin, book_margin, proj.spread_std),
                title)>>
    ELSE IF oc.name = go.away_team THEN
        LET model_margin == proj.away_pts - proj.home_pts
            book_margin == -oc.point[1]
        IN <<BetOpportunity(proj, "spread", "away", oc.point[1], oc, proj.proj_spread,
                model_margin - book_margin,
                compute_model_win_prob(model_margin, book_margin, proj.spread_std),
                title)>>
    ELSE <<>>

\* Mutant: a missing line read as 0 (oc.point or 0) instead of skipped.
spread_bets_of_zero_line(proj, go, title, oc) ==
    spread_bets_with_line(proj, go, title,
                          [oc EXCEPT !.point = IF @ = <<>> THEN <<0>> ELSE @])

\* The body of the loop of _analyze_spread_for_book for one outcome: the
\* bets it appends (none or one).
spread_bets_of(proj, go, title, oc) ==
    IF oc.point = <<>> THEN <<>> ELSE spread_bets_with_line(proj, go, title, oc)

\* Mutant: the Under bet given the Over probability (the "1.0 -" dropped).
total_bets_of_under_as_over(proj, go, title, oc) ==
    IF oc.point = <<>> THEN <<>>
    ELSE IF oc.name = "Over" THEN
        <<BetOpportunity(proj, "total", "over", oc.point[1], oc, proj.proj_total,
            proj.proj_total - oc.point[1],
            compute_model_win_prob(proj.proj_total, oc.point[1], proj.total_std),
            title)>>
    ELSE IF oc.name = "Under" THEN
        <<BetOpportunity(proj, "total", "under", oc.point[1], oc, proj.proj_total,
            oc.point[1] - proj.proj_total,
            compute_model_win_prob(proj.proj_total, oc.point[1], proj.total_std),
            title)>>
    ELSE <<>>

\* The body of the loop of _analyze_total_for_book for one outcome.
total_bets_of(proj, go, title, oc) ==
    IF oc.point = <<>> THEN <<>>
    ELSE IF oc.name = "Over" THEN
        <<BetOpportunity(proj, "total", "over", oc.point[1], oc, proj.proj_total,
            proj.proj_total - oc.point[1],
            compute_model_win_prob(proj.proj_total, oc.point[1], proj.total_std),
            title)>>
    ELSE IF oc.name = "Under" THEN
        <<BetOpportunity(proj, "total", "under", oc.point[1], oc, proj.proj_total,
            oc.point[1] - proj.proj_total,
            1000 - compute_model_win_prob(proj.proj_total, oc.point[1], proj.total_std),
            title)>>
    ELSE <<>>

\* Lines 269-323 of _analyze_moneyline_for_book for one outcome: the line
\* (point) is not read.
moneyline_bets_any(proj, go, title, oc) ==
    IF oc.name = go.home_team THEN
        LET model_margin == proj.home_pts - proj.away_pts
        IN <<BetOpportunity(proj, "moneyline", "home", 0, oc, model_margin, model_margin,
                compute_model_win_prob(model_margin, 0, proj.spread_std), title)>>
    ELSE IF oc.name = go.away_team THEN
        LET model_margin == proj.away_pts - proj.home_pts
        IN <<BetOpportunity(proj, "moneyline", "away", 0, oc, model_margin, model_margin,
                compute_model_win_prob(model_margin, 0, proj.spread_std), title)>>
    ELSE <<>>

\* Mutant: the "if oc.point is None: continue" of the other two analyzers
\* copied into the moneyline analyzer.
moneyline_bets_of_needs_line(proj, go, title, oc) ==
    IF oc.point = <<>> THEN <<>> ELSE moneyline_bets_any(proj, go, title, oc)

\* The body of the loop of _analyze_moneyline_for_book for one outcome.
moneyline_bets_of(proj, go, title, oc) == moneyline_bets_any(proj, go, title, oc)

\* analyzer(projection, game_odds, bookmaker_title, market) for the analyzer
\* the market key selects: the bets of the market's outcomes, in order.
analyze_market(proj, go, title, market) ==
    LET one(oc) ==
            IF market.key = "spreads" THEN spread_bets_of(proj, go, title, oc)
            ELSE IF market.key = "totals" THEN total_bets_of(proj, go, title, oc)
            ELSE moneyline_bets_of(proj, go, title, oc)
        f[i \in 0..Len(market.outcomes)] ==
            IF i = 0 THEN <<>> ELSE f[i - 1] \o one(market.outcomes[i])
    IN f[Len(market.outcomes)]

MarketKeys == <<"spreads", "totals", "h2h">>

\* list.sort(key=lambda b: b.safety_score, reverse=True) on a list of bets:
\* stable, so bets of equal score keep their order.
InsertBySafety(sorted, b) ==
    LET n == Cardinality({i \in 1..Len(sorted) : sorted[i].safety_score >= b.safety_score})
    IN SubSeq(sorted, 1, n) \o <<b>> \o SubSeq(sorted, n + 1, Len(sorted))

\* Mutant: bets.sort left out.
sort_by_safety_unsorted(s) == s

sort_by_safety(s) ==
    LET f[i \in 0..Len(s)] ==
            IF i = 0 THEN <<>> ELSE InsertBySafety(f[i - 1], s[i])
    IN f[Len(s)]

\* The bets list of analyze_game_value_all_books before the final sort.
analyze_lines(proj, go, lines) ==
    LET f[i \in 0..Len(lines)] ==
            IF i = 0 THEN <<>>
            ELSE f[i - 1] \o analyze_market(proj, go, lines[i][1], lines[i][2])
    IN f[Len(lines)]

all_books_bets(proj, go) ==
    LET perKey(key) == analyze_lines(proj, go, get_all_book_lines(go, key))
    IN perKey(MarketKeys[1]) \o perKey(MarketKeys[2]) \o perKey(MarketKeys[3])

analyze_game_value_all_books(proj, go) == sort_by_safety(all_books_bets(proj, go))

\* The bets list of analyze_game_value (first book per market) before the sort.
consensus_bets(proj, go) ==
    LET perKey(key) == analyze_lines(proj, go, get_consensus_line(go, key))
    IN perKey(MarketKeys[1]) \o perKey(MarketKeys[2]) \o perKey(MarketKeys[3])

analyze_game_value(proj, go) == sort_by_safety(consensus_bets(proj, go))

----------------------------------------------------------------------------
(* value_finder.py: select_best_bets, on object identities.  h is the heap   *)
(* (identity -> BetOpportunity), opps a list of identities.                  *)

bet_key(h, id) == <<h[id].game, h[id].bet_type, h[id].bet_side>>

\* Mutant: best_per_key[key] = bet without the comparison (the last wins).
dedupe_step_keep_last(h, d, id) ==
    IF \E j \in 1..Len(d) : bet_key(h, d[j]) = bet_key(h, id)
    THEN [j \in 1..Len(d) |-> IF bet_key(h, d[j]) = bet_key(h, id) THEN id ELSE d[j]]
    ELSE Append(d, id)

\* Lines 404-410: best_per_key keeps the first bet of a key and replaces it
\* only by a strictly better one; a dict lists its values in the order the
\* keys were first inserted.
dedupe_step(h, d, id) ==
    IF \E j \in 1..Len(d) : bet_key(h, d[j]) = bet_key(h, id)
    THEN LET j == CHOOSE j \in 1..Len(d) : bet_key(h, d[j]) = bet_key(h, id)
         IN IF h[id].safety_score > h[d[j]].safety_score
            THEN [d EXCEPT ![j] = id]
            ELSE d
    ELSE Append(d, id)

deduped_bets(h, opps) ==
    LET f[i \in 0..Len(opps)] ==
            IF i = 0 THEN <<>> ELSE dedupe_step(h, f[i - 1], opps[i])
    IN f[Len(opps)]

\* Lines 413-415: games[label], the deduplicated bets of a game, in order.
game_bets(h, deduped, label) ==
    SelectSeq(deduped, LAMBDA id : h[id].game = label)

\* Mutant: games kept as a list of labels, one entry per bet.
add_label_always(labels, label) == Append(labels, label)

\* The keys of games, in the order first inserted (setdefault).
add_label(labels, label) ==
    IF \E j \in 1..Len(labels) : labels[j] = label THEN labels ELSE Append(labels, label)

game_labels(h, deduped) ==
    LET f[i \in 0..Len(deduped)] ==
            IF i = 0 THEN <<>> ELSE add_label(f[i - 1], h[deduped[i]].game)
    IN f[Len(deduped)]

\* max(bets, key=...): the first bet whose key no other exceeds.
first_max_safety(h, ids) ==
    LET i == CHOOSE i \in 1..Len(ids) :
                /\ \A j \in 1..Len(ids) : h[ids[j]].safety_score <= h[ids[i]].safety_score
                /\ \A j \in 1..(i - 1) : h[ids[j]].safety_score < h[ids[i]].safety_score
    IN ids[i]

\* Mutant: the value pick taken by safety score instead of edge.
first_max_edge_by_safety(h, ids) == first_max_safety(h, ids)

first_max_edge(h, ids) ==
    LET i == CHOOSE i \in 1..Len(ids) :
                /\ \A j \in 1..Len(ids) : h[ids[j]].edge_pct <= h[ids[i]].edge_pct
                /\ \A j \in 1..(i - 1) : h[ids[j]].edge_pct < h[ids[i]].edge_pct
    IN ids[i]

\* The order of Python strings on the team names of the model.
TeamsInOrder == <<"Baylor", "Duke", "Kansas", "UNC">>

TeamRank(t) == CHOOSE i \in 1..Len(TeamsInOrder) : TeamsInOrder[i] = t

\* label a > label b as strings "<home> vs <away>" (no team name is a prefix
\* of another).
label_greater(a, b) ==
    \/ TeamRank(a[1]) > TeamRank(b[1])
    \/ a[1] = b[1] /\ TeamRank(a[3]) > TeamRank(b[3])

\* Mutant: game_scores.sort() without reverse=True.
score_less(a, b) == a[1] < b[1] \/ (a[1] = b[1] /\ label_greater(b[2], a[2]))

\* Lines 418-423: (best_safety, game_label) per game, sorted descending as
\* tuples.
score_greater(a, b) == a[1] > b[1] \/ (a[1] = b[1] /\ label_greater(a[2], b[2]))

insert_score(sorted, x) ==
    LET n == Cardinality({i \in 1..Len(sorted) : score_greater(sorted[i], x)})
    IN SubSeq(sorted, 1, n) \o <<x>> \o SubSeq(sorted, n + 1, Len(sorted))

sort_scores(unsorted) ==
    LET f[i \in 0..Len(unsorted)] ==
            IF i = 0 THEN <<>> ELSE insert_score(f[i - 1], unsorted[i])
    IN f[Len(unsorted)]

unsorted_scores(h, deduped, labels) ==
    [i \in 1..Len(labels) |->
        <<h[first_max_safety(h, game_bets(h, deduped, labels[i]))].safety_score, labels[i]>>]

game_scores(h, deduped) == sort_scores(unsorted_scores(h, deduped, game_labels(h, deduped)))

\* Mutant: bets that already carry a tag are passed over when any is left.
safe_pick_skip_tagged(h, gbets) ==
    LET untagged == SelectSeq(gbets, LAMBDA id : h[id].category = "")
    IN first_max_safety(h, IF untagged = <<>> THEN gbets ELSE untagged)

\* Lines 430-432: the safe pick of a game.
safe_pick(h, gbets) == first_max_safety(h, gbets)

\* Mutant: every bet of the game is a value candidate, the safe pick too.
value_candidates_all(h, gbets, safe) == gbets

\* Line 435: the bets of the game whose (type, side) is not the safe pick's.
value_candidates(h, gbets, safe) ==
    SelectSeq(gbets, LAMBDA id : <<h[id].bet_type, h[id].bet_side>>
                                   # <<h[safe].bet_type, h[safe].bet_side>>)

\* Lines 427-439 for one game: the category assignments, in order, as
\* <<identity, category>>; each assigned bet is appended to results.
picks_with(h, safe, cands) ==
    IF cands = <<>> THEN << <<safe, "safe">> >>
    ELSE << <<safe, "safe">>, <<first_max_edge(h, cands), "value">> >>

picks_after_safe(h, gbets, safe) == picks_with(h, safe, value_candidates(h, gbets, safe))

game_picks(h, gbets) == picks_after_safe(h, gbets, safe_pick(h, gbets))

\* game_scores[:top_n]
top_games(scores, n) == Slice(scores, n)

\* Lines 425-439: every assignment of the call, in order.
picks_of_games(h, deduped, top) ==
    LET f[i \in 0..Len(top)] ==
            IF i = 0 THEN <<>>
            ELSE f[i - 1] \o game_picks(h, game_bets(h, deduped, top[i][2]))
    IN f[Len(top)]

picks_of_deduped(h, deduped, n) ==
    picks_of_games(h, deduped, top_games(game_scores(h, deduped), n))

category_assignments(h, opps, n) == picks_of_deduped(h, deduped_bets(h, opps), n)

\* obj.category = tag, for each assignment in order.
assign_category(h, a) == [h EXCEPT ![a[1]].category = a[2]]

apply_assignments(h, asg) ==
    LET f[i \in 0..Len(asg)] ==
            IF i = 0 THEN h ELSE assign_category(f[i - 1], asg[i])
    IN f[Len(asg)]

\* Mutant: the final sort left out.
sort_ids_unsorted(h, ids) == ids

insert_id(h, sorted, x) ==
    LET n == Cardinality({i \in 1..Len(sorted) :
                            h[sorted[i]].safety_score >= h[x].safety_score})
    IN SubSeq(sorted, 1, n) \o <<x>> \o SubSeq(sorted, n + 1, Len(sorted))

\* Line 442: results.sort(key=lambda b: b.safety_score, reverse=True), stable.
sort_ids_by_safety(h, ids) ==
    LET f[i \in 0..Len(ids)] ==
            IF i = 0 THEN <<>> ELSE insert_id(h, f[i - 1], ids[i])
    IN f[Len(ids)]

\* The list select_best_bets returns.
picked_ids(asg) == [i \in 1..Len(asg) |-> asg[i][1]]

select_best_bets(h, opps, n) ==
    sort_ids_by_safety(h, picked_ids(category_assignments(h, opps, n)))

----------------------------------------------------------------------------
(* stats_builder.py: game logs and team profiles.                          *)
(* Possessions, PPP: thousandths.  Profile tempo (avg_possessions), points *)
(* and free-throw averages, standard deviations: tenths.                   *)
(* A DataFrame is [columns, rows]: columns is "none" for pd.DataFrame(),   *)
(* "raw" for the canonical row schema, "full" with poss, off_ppp, def_ppp. *)

\* df[name] of a frame's rows, as numbers; scale 10 turns units into tenths.
Column(rows, name, scale) == [i \in 1..Len(rows) |-> scale * rows[i][name]]

\* The same for a computed column (poss, off_ppp, def_ppp).
ComputedColumn(rows, name) == [i \in 1..Len(rows) |-> rows[i][name][1]]

\* Series.sum()
SumSeq(xs) ==
    LET g[i \in 0..Len(xs)] == IF i = 0 THEN 0 ELSE g[i - 1] + xs[i]
    IN g[Len(xs)]

\* Series.mean()
Mean(xs) == Div(SumSeq(xs), Len(xs))

\* Largest r with r*r <= x, for x below 4000 squared.
ISqrt(x) == CHOOSE r \in 0..4000 : r * r <= x /\ (r + 1) * (r + 1) > x

\* Series.std() (ddof = 1) of an integer column, in tenths; n > 1.
SampleStd(xs) ==
    LET n == Len(xs)
        total == SumSeq(xs)
        dev == [i \in 1..n |-> (n * xs[i] - total) * (n * xs[i] - total)]
    IN ISqrt((100 * SumSeq(dev)) \div (n * n * (n - 1)))

\* One row of the canonical schema (fetch_espn_cbb.parse_boxscore_to_rows);
\* poss, off_ppp, def_ppp are <<>> until computed.
Row(date, team, opponent, pts_for, pts_against, st) ==
    [date |-> date, team |-> team, opponent |-> opponent,
     pts_for |-> pts_for, pts_against |-> pts_against,
     fga |-> st[1], fta |-> st[2], orb |-> st[3], tov |-> st[4],
     poss |-> <<>>, off_ppp |-> <<>>, def_ppp |-> <<>>]

\* parse_boxscore_to_rows: one row per team of the game.
BoxRows(date, a, pa, sa, b, pb, sb) ==
    << Row(date, a, b, pa, pb, sa), Row(date, b, a, pb, pa, sb) >>

\* Poss = FGA - ORB + TOV + 0.475 * FTA
estimate_possessions(row) == 1000 * (row.fga - row.orb + row.tov) + 475 * row.fta

EmptyFrame == [columns |-> "none", rows |-> <<>>]

Frame(columns, rows) == [columns |-> columns, rows |-> rows]

\* df["poss"] = df.apply(estimate_possessions, axis=1)
with_poss(rows) == [i \in 1..Len(rows) |-> [rows[i] EXCEPT !.poss = <<estimate_possessions(rows[i])>>]]

\* df["off_ppp"] = pts_for / poss; df["def_ppp"] = pts_against / poss
with_ppp(rows) ==
    [i \in 1..Len(rows) |->
        [rows[i] EXCEPT !.off_ppp = <<Div(1000000 * rows[i].pts_for, rows[i].poss[1])>>,
                        !.def_ppp = <<Div(1000000 * rows[i].pts_against, rows[i].poss[1])>>]]

\* df[df["fga"] > 0]
played_rows(rows) == SelectSeq(rows, LAMBDA r : r.fga > 0)

\* Every row kept, whatever its possession estimate.
positive_poss_rows_keep_all(rows) == rows

\* df[df["poss"] > 0]
positive_poss_rows(rows) == SelectSeq(rows, LAMBDA r : r.poss[1] > 0)

\* Lines 92-112 for one event: the rows it adds to all_rows.
event_rows(event) ==
    IF event.id = "" THEN <<>>
    ELSE IF event.status \notin {"STATUS_FINAL", ""} /\ event.status = "STATUS_SCHEDULED" THEN <<>>
    ELSE IF event.box = <<>> THEN <<>>
    ELSE event.box[1]

all_rows_of(events) ==
    LET g[i \in 0..Len(events)] == IF i = 0 THEN <<>> ELSE g[i - 1] \o event_rows(events[i])
    IN g[Len(events)]

\* Lines 117-131: the frame built from the rows that are left.
season_frame(rows) == Frame("full", with_ppp(positive_poss_rows(with_poss(rows))))

fetch_team_season_data(events) ==
    IF all_rows_of(events) = <<>> THEN EmptyFrame
    ELSE IF played_rows(all_rows_of(events)) = <<>> THEN EmptyFrame
    ELSE season_frame(played_rows(all_rows_of(events)))

\* Lines 150-158: the cached CSV read back.
read_cached(file) ==
    IF file.columns = "full" THEN Frame("full", played_rows(file.rows))
    ELSE Frame("full", with_ppp(positive_poss_rows(with_poss(played_rows(file.rows)))))

\* get_or_fetch_team_season: <<the frame returned, the cache afterwards>>.
\* csv is <<>> (no file) or <<file>>; fresh says the file is under 12 hours old.
get_or_fetch_team_season(csv, fresh, events) ==
    IF csv # <<>> /\ fresh THEN << read_cached(csv[1]), csv >>
    ELSE LET df == fetch_team_season_data(events)
         IN << df, IF df.rows # <<>> THEN <<df>> ELSE csv >>

\* The opponent of every game, repeats kept.
unique_opponents_per_game(team_df) ==
    [i \in 1..Len(team_df) |-> team_df[i].opponent]

\* team_df["opponent"].unique(): first occurrences, in order.
unique_opponents(team_df) ==
    LET g[i \in 0..Len(team_df)] ==
            IF i = 0 THEN <<>>
            ELSE IF team_df[i].opponent \in Range(g[i - 1]) THEN g[i - 1]
            ELSE Append(g[i - 1], team_df[i].opponent)
    IN g[Len(team_df)]

\* A game without a row of the opponent counted as 0 free throws.
opp_fta_values_zero_for_missing(rows, team_df) ==
    LET opp_row(r) == SelectSeq(rows, LAMBDA o : o.team = r.opponent /\ o.date = r.date)
    IN [i \in 1..Len(team_df) |->
           IF opp_row(team_df[i]) = <<>> THEN 0 ELSE opp_row(team_df[i])[1].fta]

\* Lines 210-217: the free throws the opponents shot in the team's games.
opp_fta_values(rows, team_df) ==
    LET opp_row(r) == SelectSeq(rows, LAMBDA o : o.team = r.opponent /\ o.date = r.date)
        g[i \in 0..Len(team_df)] ==
            IF i = 0 THEN <<>>
            ELSE IF opp_row(team_df[i]) = <<>> THEN g[i - 1]
            ELSE Append(g[i - 1], opp_row(team_df[i])[1].fta)
    IN g[Len(team_df)]

RecentGames == 5

\* team_df.sort_values("date").tail(5); a team plays once a day.
recent_rows(team_df) ==
    SelectSeq(team_df, LAMBDA r :
        Cardinality({i \in 1..Len(team_df) : team_df[i].date > r.date}) < RecentGames)

\* Lines 249-260: <<sos_off_ppp, sos_def_ppp, sos_eff_margin>>.
\* opponent_profiles is <<>> (None) or <<m>>, m a function from names to profiles.
sos_fields(team_df, opponent_profiles) ==
    IF opponent_profiles = <<>> THEN <<0, 0, 0>>
    ELSE IF DOMAIN opponent_profiles[1] = {} THEN <<0, 0, 0>>
    ELSE LET m == opponent_profiles[1]
             known == SelectSeq(unique_opponents(team_df), LAMBDA o : o \in DOMAIN m)
             off == Mean([i \in 1..Len(known) |-> m[known[i]].off_ppp])
             def == Mean([i \in 1..Len(known) |-> m[known[i]].def_ppp])
         IN IF known = <<>> THEN <<0, 0, 0>> ELSE <<off, def, off - def>>

\* Lines 185-289: the profile of a team that has rows.  The fields kept are
\* those project_matchup reads and the scoring, efficiency, form and SOS ones.
TeamSeasonProfile(rows, team_df, team_name, opponent_profiles) ==
    LET n == Len(team_df)
        off_ppp == Mean(ComputedColumn(team_df, "off_ppp"))
        def_ppp == Mean(ComputedColumn(team_df, "def_ppp"))
        avg_fta == Mean(Column(team_df, "fta", 10))
        opp_fta == opp_fta_values(rows, team_df)
        recent == recent_rows(team_df)
        sos == sos_fields(team_df, opponent_profiles)
    IN [team |-> team_name,
        games_played |-> n,
        avg_possessions |-> Div(SumSeq(ComputedColumn(team_df, "poss")), 100 * n),
        off_ppp |-> off_ppp,
        def_ppp |-> def_ppp,
        eff_margin |-> off_ppp - def_ppp,
        avg_pts_for |-> Mean(Column(team_df, "pts_for", 10)),
        avg_pts_against |-> Mean(Column(team_df, "pts_against", 10)),
        pts_for_std |-> IF n > 1 THEN SampleStd(Column(team_df, "pts_for", 1)) ELSE 0,
        avg_fta |-> avg_fta,
        avg_opp_fta |-> IF opp_fta = <<>> THEN avg_fta ELSE Mean([i \in 1..Len(opp_fta) |-> 10 * opp_fta[i]]),
        sos_off_ppp |-> sos[1],
        sos_def_ppp |-> sos[2],
        sos_eff_margin |-> sos[3],
        recent_off_ppp |-> Mean(ComputedColumn(recent, "off_ppp")),
        recent_def_ppp |-> Mean(ComputedColumn(recent, "def_ppp")),
        recent_avg_pts |-> Mean(Column(recent, "pts_for", 10))]

Raised(kind) == [raised |-> kind]

Returned(value) == [raised |-> "", value |-> value]

\* build_team_profile: the profile returned or the exception raised.
\* df["team"] on a frame without columns is a KeyError (line 181), as is
\* team_df["poss"] on the raw schema (line 188).
build_team_profile(df, team_name, opponent_profiles) ==
    LET team_df == SelectSeq(df.rows, LAMBDA r : r.team = team_name)
    IN IF df.columns = "none" THEN Raised("KeyError")
       ELSE IF team_df = <<>> THEN Raised("ValueError")
       ELSE IF df.columns = "raw" THEN Raised("KeyError")
       ELSE Returned(TeamSeasonProfile(df.rows, team_df, team_name, opponent_profiles))

----------------------------------------------------------------------------
(* scripts/matchup_model.py.  Profile tempo, free throws and standard
   deviations are in tenths, profile PPP in thousandths; a projected PPP is in
   1/100000, projected points, totals and spreads are in millionths of a
   point (tempo times PPP, exactly), a win probability is in millionths. *)

\* stats_builder.LEAGUE_AVG_PPP, in thousandths.
LEAGUE_AVG_PPP == 1000

\* HOME_COURT_PPP, in thousandths.
HOME_COURT_PPP == 45

\* project_tempo's fallback tempo, in tenths.
FallbackTempo == 650

\* project_fta's league_avg_fta, in tenths.
LeagueAvgFta == 180

\* estimate_uncertainty: the games of a full season, and the floors of a team
\* total and of the game total, in tenths.
FullSeasonGames == 30

TeamStdFloor == 60

TotalStdFloor == 100

\* norm.ppf(0.95), in 1/100000.
Z90 == 164485

\* 1000000 / (1 + exp(-0.175 * s)) for s = 0..60 whole points: the win
\* probability of the side favoured by s points.
LogisticTable ==
    <<500000, 543639, 586618, 628316, 668188, 705785, 740775, 772942,
      802184, 828495, 851953, 872695, 890903, 906785, 920561, 932453,
      942676, 951432, 958909, 965277, 970688, 975277, 979164, 982450,
      985226, 987568, 989543, 991207, 992608, 993788, 994780, 995614,
      996316, 996905, 997401, 997817, 998167, 998461, 998708, 998915,
      999089, 999235, 999358, 999461, 999547, 999620, 999681, 999732,
      999775, 999811, 999842, 999867, 999888, 999906, 999921, 999934,
      999945, 999953, 999961, 999967, 999972>>

\* The probability of the side favoured by a thousandths of a point: the table
\* at whole points, a straight line between them, its last entry beyond it.
Favoured(a) ==
    LET i == a \div 1000
        f == a % 1000
    IN IF i + 2 > Len(LogisticTable) THEN LogisticTable[Len(LogisticTable)]
       ELSE LogisticTable[i + 1]
              + Div((LogisticTable[i + 2] - LogisticTable[i + 1]) * f, 1000)

\* 1 / (1 + exp(-k * spread)): the sign of the exponent reversed.
logistic_win_prob_rising(spread, spread_std) ==
    LET s == Div(spread, 1000)
    IN IF s >= 0 THEN Favoured(s) ELSE 1000000 - Favoured(-s)

\* logistic_win_prob: 1 / (1 + exp(k * spread)), k = 0.175; spread_std is not
\* read.  The spread is taken to the nearest thousandth of a point.
logistic_win_prob(spread, spread_std) ==
    LET s == Div(spread, 1000)
    IN IF s <= 0 THEN Favoured(-s) ELSE 1000000 - Favoured(s)

\* compute_confidence_intervals(value, std): <<lo, hi>>.
compute_confidence_intervals(value, std) ==
    <<value - Z90 * std, value + Z90 * std>>

\* compute_adjusted_efficiency: <<adj_off, adj_def>>, in thousandths.
compute_adjusted_efficiency(profile) ==
    <<IF profile.sos_def_ppp > 0
        THEN profile.off_ppp + (LEAGUE_AVG_PPP - profile.sos_def_ppp)
        ELSE profile.off_ppp,
      IF profile.sos_off_ppp > 0
        THEN profile.def_ppp + (LEAGUE_AVG_PPP - profile.sos_off_ppp)
        ELSE profile.def_ppp>>

\* project_tempo with the larger tempo as the fallback, not floored.
project_tempo_unfloored(home, away) ==
    LET t1 == home.avg_possessions
        t2 == away.avg_possessions
    IN IF t1 <= 0 \/ t2 <= 0 THEN Max(t1, t2)
       ELSE Div(2 * t1 * t2, t1 + t2)

\* project_tempo: the harmonic mean of the two tempos, in tenths.
project_tempo(home, away) ==
    LET t1 == home.avg_possessions
        t2 == away.avg_possessions
    IN IF t1 <= 0 \/ t2 <= 0 THEN Max(Max(t1, t2), FallbackTempo)
       ELSE Div(2 * t1 * t2, t1 + t2)

\* project_ppp with the bonus added to the visiting side as well.
project_ppp_bonus_always(off_profile, def_profile, is_home, home_court) ==
    LET adj_off == compute_adjusted_efficiency(off_profile)[1]
        adj_def == compute_adjusted_efficiency(def_profile)[2]
        matchup_ppp == adj_off + adj_def - LEAGUE_AVG_PPP
        recent_ppp == IF off_profile.recent_off_ppp > 0 THEN off_profile.recent_off_ppp
                      ELSE adj_off
    IN 85 * matchup_ppp + 15 * recent_ppp + 100 * home_court

\* project_ppp, in 1/100000; home_court is the value of the module's
\* HOME_COURT_PPP when it is called.
project_ppp(off_profile, def_profile, is_home, home_court) ==
    LET adj_off == compute_adjusted_efficiency(off_profile)[1]
        adj_def == compute_adjusted_efficiency(def_profile)[2]
        matchup_ppp == adj_off + adj_def - LEAGUE_AVG_PPP
        recent_ppp == IF off_profile.recent_off_ppp > 0 THEN off_profile.recent_off_ppp
                      ELSE adj_off
        blended == 85 * matchup_ppp + 15 * recent_ppp
    IN IF is_home THEN blended + 100 * home_court ELSE blended

\* project_fta, in tenths.
project_fta(off_profile, def_profile) ==
    Div(4 * off_profile.avg_fta + 4 * def_profile.avg_opp_fta + 2 * LeagueAvgFta, 10)

\* The penalised standard deviation without the floor of 6.0.
team_pts_std_unfloored(profile) ==
    ISqrt((profile.pts_for_std * profile.pts_for_std * FullSeasonGames)
             \div Max(profile.games_played, 1))

\* pts_for_std * sqrt(30 / max(games_played, 1)), floored, in tenths.
team_pts_std(profile) ==
    Max(ISqrt((profile.pts_for_std * profile.pts_for_std * FullSeasonGames)
                 \div Max(profile.games_played, 1)),
        TeamStdFloor)

\* estimate_uncertainty: <<total_std, spread_std, home_pts_std, away_pts_std>>.
estimate_uncertainty(home, away) ==
    LET h == team_pts_std(home)
        a == team_pts_std(away)
        both == Max(ISqrt(h * h + a * a), TotalStdFloor)
    IN <<both, both, h, a>>

\* proj_spread as home_pts - away_pts.
proj_spread_home_minus_away(home_pts, away_pts) == home_pts - away_pts

\* Line 224.
proj_spread_of(home_pts, away_pts) == away_pts - home_pts

\* Line 223.
proj_total_of(home_pts, away_pts) == home_pts + away_pts

\* project_matchup: the MatchupProjection it returns.
project_matchup(home, away, home_court) ==
    LET tempo == project_tempo(home, away)
        home_ppp == project_ppp(home, away, TRUE, home_court)
        away_ppp == project_ppp(away, home, FALSE, home_court)
        home_pts == tempo * home_ppp
        away_pts == tempo * away_ppp
        proj_total == proj_total_of(home_pts, away_pts)
        proj_spread == proj_spread_of(home_pts, away_pts)
        unc == estimate_uncertainty(home, away)
        home_ci == compute_confidence_intervals(home_pts, unc[3])
        away_ci == compute_confidence_intervals(away_pts, unc[4])
        total_ci == compute_confidence_intervals(proj_total, unc[1])
        spread_ci == compute_confidence_intervals(proj_spread, unc[2])
    IN [home_team |-> home.team,
        away_team |-> away.team,
        proj_tempo |-> tempo,
        home_ppp |-> home_ppp,
        away_ppp |-> away_ppp,
        home_pts |-> home_pts,
        away_pts |-> away_pts,
        proj_total |-> proj_total,
        proj_spread |-> proj_spread,
        home_fta |-> project_fta(home, away),
        away_fta |-> project_fta(away, home),
        total_std |-> unc[1],
        spread_std |-> unc[2],
        home_pts_std |-> unc[3],
        away_pts_std |-> unc[4],
        home_win_prob |-> logistic_win_prob(proj_spread, unc[2]),
        home_pts_ci_lo |-> home_ci[1],
        home_pts_ci_hi |-> home_ci[2],
        away_pts_ci_lo |-> away_ci[1],
        away_pts_ci_hi |-> away_ci[2],
        total_ci_lo |-> total_ci[1],
        total_ci_hi |-> total_ci[2],
        spread_ci_lo |-> spread_ci[1],
        spread_ci_hi |-> spread_ci[2]]

\* Before the pipeline has run.
InitStatsIdle ==
    /\ schedule = <<>>
    /\ cache = <<>>
    /\ game_log = EmptyFrame
    /\ log_source = "none"
    /\ raw_profile = <<>>
    /\ opp_map = <<>>
    /\ sos_profile = <<>>
    /\ stats_pc = "idle"

\* Before the batch loop has run.
InitLoopIdle ==
    /\ stage = "idle"
    /\ loop_proj = <<>>
    /\ game_outcomes = <<>>

\* Before a numeric function is called.
InitPure ==
    /\ fn_call = <<>>
    /\ fn_result = <<>>

\* Before build_cache_parallel is called.
InitPoolIdle ==
    /\ teams = <<>>
    /\ max_workers = 0
    /\ futures = <<>>
    /\ success_count = 0
    /\ fail_count = 0
    /\ pool_pc = "idle"

\* An empty picks table.
InitTrackerIdle ==
    /\ picks = <<>>
    /\ last_run = <<>>
    /\ summary = <<>>

\* The cache builder and the pick tracker, before they run.
InitLastIdle == InitPoolIdle /\ InitTrackerIdle

\* The later parts of the program, before they run.
InitLaterIdle == InitStatsIdle /\ InitLoopIdle /\ InitPure /\ InitLastIdle

----------------------------------------------------------------------------
(* Inputs: the odds feed and the projections, from bounded sets *)

\* Bookmaker titles, in feed order; a feed lists a bookmaker once.
MaxBooks == 2

BookTitle(i) == <<"Book", i>>

\* The quotes a bookmaker may post on one market (it may also post none):
\* complete quotes, quotes with a line missing, outcomes in either order.
SpreadQuotes(home, away) ==
    { <<OddsOutcome(home, -110, <<-35>>), OddsOutcome(away, -110, <<35>>)>>,
      <<OddsOutcome(away, -300, <<125>>), OddsOutcome(home, 240, <<>>)>> }

TotalQuotes ==
    { <<OddsOutcome("Over", -110, <<1455>>), OddsOutcome("Under", -110, <<1455>>)>>,
      <<OddsOutcome("Over", 100, <<1385>>), OddsOutcome("Under", -120, <<>>)>> }

MoneylineQuotes(home, away) ==
    { <<OddsOutcome(home, -300, <<>>), OddsOutcome(away, 240, <<>>)>> }

\* What one bookmaker posts: for each market key, nothing or one quote
\* (the feed order of the markets is h2h, spreads, totals).
MarketLists(home, away) ==
    LET opt(key, quotes) == {<<>>} \cup {<<OddsMarket(key, q)>> : q \in quotes}
    IN { h \o sp \o t : h \in opt("h2h", MoneylineQuotes(home, away)),
                        sp \in opt("spreads", SpreadQuotes(home, away)),
                        t \in opt("totals", TotalQuotes) }

\* Every feed of n bookmakers for the game.
RECURSIVE BookLists(_, _, _)
BookLists(home, away, n) ==
    IF n = 0 THEN {<<>>}
    ELSE { Append(bl, BookmakerOdds(BookTitle(n), ml)) :
             bl \in BookLists(home, away, n - 1), ml \in MarketLists(home, away) }

OddsFeeds(home, away) ==
    { GameOdds(home, away, bl) : bl \in UNION {BookLists(home, away, n) : n \in 0..MaxBooks} }

\* The projections of a game: the home team ahead by 8.0, or behind by 3.5.
Projections(home, away) ==
    { MatchupProjection(home, away, 780, 700, 100),
      MatchupProjection(home, away, 690, 725, 130) }

----------------------------------------------------------------------------
(* One analysis call *)

InitAnalysis ==
    /\ projection = <<>>
    /\ game_odds = <<>>
    /\ fn = "none"
    /\ bets = <<>>

InitBatchIdle ==
    /\ caller = "app"
    /\ heap = <<>>
    /\ emitted = <<>>
    /\ all_opportunities = <<>>
    /\ next_game = 1
    /\ top_n = 0
    /\ assigned = <<>>
    /\ results = <<>>
    /\ pc = "idle"

\* bets = analyze_game_value_all_books(projection, game_odds)
\* (quick_analysis.py:142, app.py:647)
AnalyzeAllBooks ==
    \E proj \in Projections("Duke", "UNC") : \E go \in OddsFeeds("Duke", "UNC") :
        /\ fn = "none"
        /\ projection' = proj
        /\ game_odds' = go
        /\ fn' = "all_books"
        /\ bets' = analyze_game_value_all_books(proj, go)
        /\ UNCHANGED <<batchVars, concVars>>
        /\ UNCHANGED laterVars


\* bets = analyze_game_value(projection, game_odds)
AnalyzeConsensus ==
    \E proj \in Projections("Duke", "UNC") : \E go \in OddsFeeds("Duke", "UNC") :
        /\ fn = "none"
        /\ projection' = proj
        /\ game_odds' = go
        /\ fn' = "consensus"
        /\ bets' = analyze_game_value(proj, go)
        /\ UNCHANGED <<batchVars, concVars>>
        /\ UNCHANGED laterVars


InitA == InitAnalysis /\ InitBatchIdle /\ invocations = <<>> /\ InitLaterIdle

NextA == AnalyzeAllBooks \/ AnalyzeConsensus

SpecAnalyze == InitA /\ [][NextA]_vars

----------------------------------------------------------------------------
(* The batch pipeline: analyze every game of the slate, then select *)

\* Today's games, as (home, away).
Slate == << <<"Duke", "UNC">>, <<"Kansas", "Baylor">> >>

MaxTopN == 2

\* top_n: 8 in daily_analysis.py and app.py (more than the slate holds),
\* args.top, any integer, in odds_driven_analysis.py.
TopNs == -1..MaxTopN

\* What a bookmaker posts in the batch runs: every market; moneyline and a
\* spread at other prices; totals only, the Under line missing.
SlateMarketLists(home, away) ==
    { << OddsMarket("h2h", <<OddsOutcome(home, -300, <<>>), OddsOutcome(away, 240, <<>>)>>),
         OddsMarket("spreads", <<OddsOutcome(home, -110, <<-35>>), OddsOutcome(away, -110, <<35>>)>>),
         OddsMarket("totals", <<OddsOutcome("Over", -110, <<1455>>), OddsOutcome("Under", -110, <<1455>>)>>) >>,
      << OddsMarket("h2h", <<OddsOutcome(away, -140, <<>>), OddsOutcome(home, 120, <<>>)>>),
         OddsMarket("spreads", <<OddsOutcome(away, -300, <<125>>), OddsOutcome(home, 240, <<-125>>)>>) >>,
      << OddsMarket("totals", <<OddsOutcome("Over", 100, <<1385>>), OddsOutcome("Under", -120, <<>>)>>) >> }

RECURSIVE SlateBookLists(_, _, _)
SlateBookLists(home, away, n) ==
    IF n = 0 THEN {<<>>}
    ELSE { Append(bl, BookmakerOdds(BookTitle(n), ml)) :
             bl \in SlateBookLists(home, away, n - 1), ml \in SlateMarketLists(home, away) }

SlateFeeds(home, away) ==
    { GameOdds(home, away, bl) :
        bl \in UNION {SlateBookLists(home, away, n) : n \in 1..MaxBooks} }

\* daily_analysis.py:141-144 and odds_driven_analysis.py:107: good_bets;
\* app.py:720 keeps every bet.
kept_bets(who, bs) ==
    IF who = "daily"
    THEN SelectSeq(bs, LAMBDA b : b.edge_pct > 30 /\ b.safety_score > 50000)
    ELSE bs

\* all_opportunities.extend(bets): the identities of the new objects, which
\* go on the heap after the n it holds.  select_best_bets is public and takes
\* any list: the caller "any" builds its list back to front.
extended(who, opps, n, k) ==
    IF who = "any"
    THEN [i \in 1..k |-> n + k + 1 - i] \o opps
    ELSE opps \o [i \in 1..k |-> n + i]

InitBatch ==
    /\ caller \in {"app", "daily", "any"}
    /\ heap = <<>>
    /\ emitted = <<>>
    /\ all_opportunities = <<>>
    /\ next_game = 1
    /\ top_n = 0
    /\ assigned = <<>>
    /\ results = <<>>
    /\ pc = "loop"

\* One iteration of the loop over the games that reaches the analyzer: the
\* bets kept are new objects, appended to all_opportunities.
AnalyzeGame ==
    /\ pc = "loop"
    /\ next_game <= Len(Slate)
    /\ \E proj \in Projections(Slate[next_game][1], Slate[next_game][2]) :
       \E go \in SlateFeeds(Slate[next_game][1], Slate[next_game][2]) :
          LET kept == kept_bets(caller, analyze_game_value_all_books(proj, go))
          IN /\ heap' = heap \o kept
             /\ emitted' = emitted \o kept
             /\ all_opportunities' =
                   extended(caller, all_opportunities, Len(heap), Len(kept))
    /\ next_game' = next_game + 1
    /\ UNCHANGED <<caller, top_n, assigned, results, pc>>
    /\ UNCHANGED <<analysisVars, concVars>>
    /\ UNCHANGED laterVars


\* One iteration that ends in continue: no odds for the game, missing team
\* data, or an exception caught by the loop.
SkipGame ==
    /\ pc = "loop"
    /\ next_game <= Len(Slate)
    /\ next_game' = next_game + 1
    /\ UNCHANGED <<caller, heap, emitted, all_opportunities, top_n, assigned, results, pc>>
    /\ UNCHANGED <<analysisVars, concVars>>
    /\ UNCHANGED laterVars


\* best = select_best_bets(all_opportunities, top_n), after the loop and
\* only when the list is not empty.
SelectBestBets ==
    /\ pc = "loop"
    /\ next_game > Len(Slate)
    /\ all_opportunities # <<>>
    /\ \E n \in TopNs :
          /\ top_n' = n
          /\ assigned' = category_assignments(heap, all_opportunities, n)
          /\ heap' = apply_assignments(heap, assigned')
          /\ results' = select_best_bets(heap, all_opportunities, n)
    /\ pc' = "selected"
    /\ UNCHANGED <<caller, emitted, all_opportunities, next_game>>
    /\ UNCHANGED <<analysisVars, concVars>>
    /\ UNCHANGED laterVars


Init == InitAnalysis /\ InitBatch /\ invocations = <<>> /\ InitLaterIdle

Next == AnalyzeGame \/ SkipGame \/ SelectBestBets

Spec == Init /\ [][Next]_vars

----------------------------------------------------------------------------
(* Concurrent invocations of select_best_bets by two workers on lists that *)
(* may hold the same BetOpportunity objects.  The only shared writes of an *)
(* invocation are its category assignments (lines 431 and 438), so each is *)
(* a step; everything it reads besides is never written.                   *)

Workers == {1, 2}

CallerTopN == 8

\* What the one bookmaker posts: a sheet of the batch runs, or a steep
\* moneyline with a total whose Under line is missing.
ConcMarketLists(home, away) ==
    SlateMarketLists(home, away) \cup
    { << OddsMarket("h2h", <<OddsOutcome(home, -400, <<>>), OddsOutcome(away, 320, <<>>)>>),
         OddsMarket("totals", <<OddsOutcome("Over", 100, <<1385>>), OddsOutcome("Under", -120, <<>>)>>) >> }

\* The bets of one game as one bookmaker quotes it.
OneBookBets(g) ==
    { analyze_game_value_all_books(proj,
          GameOdds(Slate[g][1], Slate[g][2], <<BookmakerOdds(BookTitle(1), ml)>>)) :
        proj \in Projections(Slate[g][1], Slate[g][2]),
        ml \in ConcMarketLists(Slate[g][1], Slate[g][2]) }

\* The lists handed to select_best_bets over a heap whose first n1 objects
\* are the first game's: every bet (app.py), the good bets
\* (daily_analysis.py), one game's bets.
InputLists(h, n1) ==
    { l \in { [i \in 1..Len(h) |-> i],
              SelectSeq([i \in 1..Len(h) |-> i],
                        LAMBDA id : h[id].edge_pct > 30 /\ h[id].safety_score > 50000),
              [i \in 1..n1 |-> i],
              [i \in 1..(Len(h) - n1) |-> n1 + i] } : l # <<>> }

Invocation(list) ==
    [list |-> list, pc |-> "ready", plan |-> <<>>, picked |-> <<>>, returned |-> <<>>]

InitConc ==
    /\ InitAnalysis
    /\ InitLaterIdle
    /\ caller = "app"
    /\ all_opportunities = <<>>
    /\ next_game = 1
    /\ top_n = CallerTopN
    /\ assigned = <<>>
    /\ results = <<>>
    /\ pc = "workers"
    /\ \E b1 \in OneBookBets(1) : \E b2 \in OneBookBets(2) :
          /\ heap = b1 \o b2
          /\ emitted = b1 \o b2
          /\ \E l1 \in InputLists(b1 \o b2, Len(b1)) : \E l2 \in InputLists(b1 \o b2, Len(b1)) :
                invocations = [w \in Workers |-> Invocation(IF w = 1 THEN l1 ELSE l2)]

\* Lines 404-423: the worker deduplicates, groups and ranks; what it will
\* assign follows from fields no invocation writes.
planned_assignments(h, list) == category_assignments(h, list, CallerTopN)

StartSelect(w) ==
    /\ invocations[w].pc = "ready"
    /\ invocations' = [invocations EXCEPT
                          ![w].pc = "picking",
                          ![w].plan = planned_assignments(heap, invocations[w].list)]
    /\ UNCHANGED <<analysisVars, caller, heap, emitted, all_opportunities, next_game,
                   top_n, assigned, results, pc>>
    /\ UNCHANGED laterVars


\* safe.category = "safe"; results.append(safe), or the same for value.
AssignCategory(w) ==
    /\ invocations[w].pc = "picking"
    /\ invocations[w].plan # <<>>
    /\ heap' = assign_category(heap, Head(invocations[w].plan))
    /\ invocations' = [invocations EXCEPT
                          ![w].plan = Tail(@),
                          ![w].picked = Append(@, Head(invocations[w].plan)[1])]
    /\ UNCHANGED <<analysisVars, caller, emitted, all_opportunities, next_game,
                   top_n, assigned, results, pc>>
    /\ UNCHANGED laterVars


\* results.sort(...); return results
ReturnResults(w) ==
    /\ invocations[w].pc = "picking"
    /\ invocations[w].plan = <<>>
    /\ invocations' = [invocations EXCEPT
                          ![w].pc = "done",
                          ![w].returned = sort_ids_by_safety(heap, invocations[w].picked)]
    /\ UNCHANGED <<analysisVars, caller, heap, emitted, all_opportunities, next_game,
                   top_n, assigned, results, pc>>
    /\ UNCHANGED laterVars


NextConc == \E w \in Workers : StartSelect(w) \/ AssignCategory(w) \/ ReturnResults(w)

SpecConc == InitConc /\ [][NextConc]_vars

----------------------------------------------------------------------------
(* The stats pipeline of one team: fetch or read the game log, then build  *)
(* the raw profile and the SOS profile (daily_analysis.py:116-129,         *)
(* single_matchup.py:54-62).                                                *)

Event(id, status, box) == [id |-> id, status |-> status, box |-> box]

\* The events ESPN may list for the team: box is <<rows>>, or <<>> when
\* fetching or parsing the box score raises.  Stats are <<fga, fta, orb, tov>>.
\* The box score of e8 has no team statistics for the opponent.
SampleEvents ==
    { Event("e1", "STATUS_FINAL",
            <<BoxRows(1, "Duke", 78, <<60, 20, 10, 12>>, "UNC", 70, <<58, 16, 8, 13>>)>>),
      Event("e2", "STATUS_FINAL",
            <<BoxRows(2, "Kansas", 72, <<62, 18, 9, 11>>, "Duke", 65, <<55, 14, 7, 15>>)>>),
      Event("e3", "STATUS_FINAL",
            <<BoxRows(3, "Duke", 81, <<64, 22, 12, 10>>, "UNC", 84, <<61, 25, 9, 12>>)>>),
      Event("e4", "STATUS_SCHEDULED",
            <<BoxRows(4, "Duke", 0, <<0, 0, 0, 0>>, "Baylor", 0, <<0, 0, 0, 0>>)>>),
      Event("e5", "STATUS_IN_PROGRESS",
            <<BoxRows(6, "Duke", 40, <<30, 8, 5, 6>>, "Baylor", 35, <<28, 6, 4, 7>>)>>),
      Event("e6", "",
            <<BoxRows(5, "Duke", 2, <<1, 0, 3, 0>>, "Baylor", 0, <<0, 0, 0, 0>>)>>),
      Event("e7", "STATUS_FINAL", <<>>),
      Event("e8", "STATUS_FINAL",
            <<BoxRows(7, "Duke", 90, <<62, 24, 11, 9>>, "Baylor", 50, <<0, 0, 0, 0>>)>>) }

MaxEvents == 3

\* The schedules: up to MaxEvents events, each listed once.
RECURSIVE Schedules(_)
Schedules(n) ==
    IF n = 0 THEN {<<>>}
    ELSE Schedules(n - 1) \cup
         { Append(s, e) : s \in {t \in Schedules(n - 1) : Len(t) = n - 1},
                          e \in SampleEvents }

DistinctSchedules == { s \in Schedules(MaxEvents) : Cardinality(Range(s)) = Len(s) }

\* A CSV left by an earlier version: canonical rows, no poss column.
LegacyFile ==
    Frame("raw", BoxRows(1, "Duke", 78, <<60, 20, 10, 12>>, "UNC", 70, <<58, 16, 8, 13>>)
                 \o BoxRows(5, "Duke", 2, <<1, 0, 3, 0>>, "Baylor", 0, <<0, 0, 0, 0>>))

\* Opponent profiles as the callers and tests may pass them: the fields
\* the SOS pass reads.
OpponentProfile(team, off_ppp, def_ppp) == [team |-> team, off_ppp |-> off_ppp, def_ppp |-> def_ppp]

OpponentMaps ==
    { <<>>,
      << <<>> >>,
      << [t \in {"Duke", "UNC"} |->
            IF t = "Duke" THEN OpponentProfile(t, 1100, 1010) ELSE OpponentProfile(t, 1050, 980)] >>,
      << [t \in {"UNC", "Kansas"} |->
            IF t = "UNC" THEN OpponentProfile(t, 1050, 980) ELSE OpponentProfile(t, 1120, 940)] >>,
      << [t \in {"Baylor"} |-> OpponentProfile(t, 990, 1030)] >> }

StatsTeam == "Duke"

InitStats ==
    /\ schedule \in DistinctSchedules
    /\ cache \in {<<>>, <<LegacyFile>>}
    /\ game_log = EmptyFrame
    /\ log_source = "none"
    /\ raw_profile = <<>>
    /\ opp_map = <<>>
    /\ sos_profile = <<>>
    /\ stats_pc = "start"

\* df = get_or_fetch_team_season(name, espn_id, season); a later run calls
\* it again, the file written by the first then being in the cache.
GetOrFetch ==
    /\ stats_pc \in {"start", "fetched"}
    /\ \E fresh \in BOOLEAN :
          /\ game_log' = get_or_fetch_team_season(cache, fresh, schedule)[1]
          /\ cache' = get_or_fetch_team_season(cache, fresh, schedule)[2]
          /\ log_source' = IF cache # <<>> /\ fresh THEN "cache" ELSE "fetch"
    /\ stats_pc' = IF stats_pc = "start" THEN "fetched" ELSE "refetched"
    /\ UNCHANGED <<schedule, raw_profile, opp_map, sos_profile>>
    /\ UNCHANGED notStatsVars

\* home_raw = build_team_profile(home_df, name, espn_id)
BuildRawProfile ==
    /\ stats_pc \in {"fetched", "refetched"}
    /\ raw_profile' = build_team_profile(game_log, StatsTeam, <<>>)
    /\ stats_pc' = "raw"
    /\ UNCHANGED <<schedule, cache, game_log, log_source, opp_map, sos_profile>>
    /\ UNCHANGED notStatsVars

\* home_profile = build_team_profile(home_df, name, espn_id, opponent_profiles=...)
BuildSosProfile ==
    /\ stats_pc = "raw"
    /\ raw_profile.raised = ""
    /\ \E m \in OpponentMaps :
          /\ opp_map' = m
          /\ sos_profile' = build_team_profile(game_log, StatsTeam, m)
    /\ stats_pc' = "built"
    /\ UNCHANGED <<schedule, cache, game_log, log_source, raw_profile>>
    /\ UNCHANGED notStatsVars

NextStats == GetOrFetch \/ BuildRawProfile \/ BuildSosProfile

InitS == InitAnalysis /\ InitBatchIdle /\ invocations = <<>> /\ InitStats /\ InitLoopIdle /\ InitPure /\ InitLastIdle

SpecStats == InitS /\ [][NextStats]_vars

----------------------------------------------------------------------------
(* The batch loop with its try/except (daily_analysis.py:111-153,          *)
(* odds_driven_analysis.py:79-111): the body of one game runs stage by     *)
(* stage, any stage may raise, and the handler goes on to the next game.   *)

\* The stages of the try body, in order, and what may go wrong in each.
LoopStages == <<"load", "build", "project", "analyze">>

\* Mutant: the handler leaves the loop (break) instead of going on.
after_failure_break(g) == Len(Slate) + 1

\* except Exception: print / continue -- the next game.
after_failure(g) == g + 1

Outcome(g, result, kept) == [game |-> g, result |-> result, kept |-> kept]

InitLoop ==
    /\ caller \in {"daily", "odds_driven"}
    /\ heap = <<>>
    /\ emitted = <<>>
    /\ all_opportunities = <<>>
    /\ next_game = 1
    /\ top_n = 0
    /\ assigned = <<>>
    /\ results = <<>>
    /\ pc = "loop"
    /\ stage = "load"
    /\ loop_proj = <<>>
    /\ game_outcomes = <<>>

\* A stage raises: the except clause of the loop catches it.
StageRaises ==
    /\ pc = "loop"
    /\ next_game <= Len(Slate)
    /\ game_outcomes' = Append(game_outcomes, Outcome(next_game, <<"raised", stage>>, <<>>))
    /\ next_game' = after_failure(next_game)
    /\ stage' = "load"
    /\ loop_proj' = <<>>
    /\ UNCHANGED <<caller, heap, emitted, all_opportunities, top_n, assigned, results, pc>>
    /\ UNCHANGED <<analysisVars, concVars, statsVars, pureVars, lastVars>>

\* if home_df.empty or away_df.empty: continue
MissingData ==
    /\ pc = "loop"
    /\ next_game <= Len(Slate)
    /\ stage = "load"
    /\ game_outcomes' = Append(game_outcomes, Outcome(next_game, <<"missing data">>, <<>>))
    /\ next_game' = next_game + 1
    /\ UNCHANGED <<stage, loop_proj>>
    /\ UNCHANGED <<caller, heap, emitted, all_opportunities, top_n, assigned, results, pc>>
    /\ UNCHANGED <<analysisVars, concVars, statsVars, pureVars, lastVars>>

\* The game logs are loaded; the four profiles are built.
StageDone ==
    /\ pc = "loop"
    /\ next_game <= Len(Slate)
    /\ stage \in {"load", "build"}
    /\ stage' = IF stage = "load" THEN "build" ELSE "project"
    /\ UNCHANGED <<loop_proj, game_outcomes>>
    /\ UNCHANGED batchVars
    /\ UNCHANGED <<analysisVars, concVars, statsVars, pureVars, lastVars>>

\* projection = project_matchup(home_profile, away_profile)
ProjectGame ==
    /\ pc = "loop"
    /\ next_game <= Len(Slate)
    /\ stage = "project"
    /\ \E proj \in Projections(Slate[next_game][1], Slate[next_game][2]) :
          loop_proj' = proj
    /\ stage' = "analyze"
    /\ UNCHANGED game_outcomes
    /\ UNCHANGED batchVars
    /\ UNCHANGED <<analysisVars, concVars, statsVars, pureVars, lastVars>>

\* daily_analysis.py:136: the game has no odds -- nothing to analyze.
NoOdds ==
    /\ pc = "loop"
    /\ next_game <= Len(Slate)
    /\ stage = "analyze"
    /\ caller = "daily"
    /\ game_outcomes' = Append(game_outcomes, Outcome(next_game, <<"no odds">>, <<>>))
    /\ next_game' = next_game + 1
    /\ stage' = "load"
    /\ loop_proj' = <<>>
    /\ UNCHANGED <<caller, heap, emitted, all_opportunities, top_n, assigned, results, pc>>
    /\ UNCHANGED <<analysisVars, concVars, statsVars, pureVars, lastVars>>

\* bets = analyze_game_value_all_books(projection, game_odds); good_bets;
\* all_opportunities.extend(good_bets)
AnalyzeAndExtend ==
    /\ pc = "loop"
    /\ next_game <= Len(Slate)
    /\ stage = "analyze"
    /\ \E go \in SlateFeeds(Slate[next_game][1], Slate[next_game][2]) :
          LET kept == kept_bets("daily", analyze_game_value_all_books(loop_proj, go))
          IN /\ heap' = heap \o kept
             /\ emitted' = emitted \o kept
             /\ all_opportunities' = extended(caller, all_opportunities, Len(heap), Len(kept))
             /\ game_outcomes' = Append(game_outcomes, Outcome(next_game, <<"analyzed">>, kept))
    /\ next_game' = next_game + 1
    /\ stage' = "load"
    /\ loop_proj' = <<>>
    /\ UNCHANGED <<caller, top_n, assigned, results, pc>>
    /\ UNCHANGED <<analysisVars, concVars, statsVars, pureVars, lastVars>>

NextLoop ==
    StageRaises \/ MissingData \/ StageDone \/ ProjectGame \/ NoOdds \/ AnalyzeAndExtend

InitL == InitAnalysis /\ InitLoop /\ invocations = <<>> /\ InitStatsIdle /\ InitPure /\ InitLastIdle

SpecLoop == InitL /\ [][NextLoop]_vars

----------------------------------------------------------------------------
(* The numeric functions called on their own: one call, its arguments      *)
(* drawn from bounded sets, its result kept.                                *)

\* American odds as books and tests give them: favourites, underdogs, even
\* money, the smallest prices and 0.
KellyOdds == {-1000, -400, -300, -250, -110, -100, -1, 0, 1, 100, 150, 240, 1000}

\* Probabilities in [0, 1], every thousandth.
Probabilities == 0..1000

\* compute_kelly_fraction(model_win_prob, odds)
CallKelly ==
    /\ fn_call = <<>>
    /\ \E p \in Probabilities : \E odds \in KellyOdds :
          /\ fn_call' = <<"compute_kelly_fraction", p, odds>>
          /\ fn_result' = compute_kelly_fraction(p, odds)
    /\ UNCHANGED notPureVars

\* A TeamSeasonProfile with the fields project_matchup reads chosen freely;
\* sos is <<sos_off_ppp, sos_def_ppp>>, form is <<games_played, pts_for_std>>.
SampleProfile(team, tempo, off_ppp, def_ppp, sos, recent, form) ==
    [team |-> team,
     games_played |-> form[1],
     avg_possessions |-> tempo,
     off_ppp |-> off_ppp,
     def_ppp |-> def_ppp,
     eff_margin |-> off_ppp - def_ppp,
     avg_pts_for |-> Div(tempo * off_ppp, 1000),
     avg_pts_against |-> Div(tempo * def_ppp, 1000),
     pts_for_std |-> form[2],
     avg_fta |-> 190,
     avg_opp_fta |-> 170,
     sos_off_ppp |-> sos[1],
     sos_def_ppp |-> sos[2],
     sos_eff_margin |-> sos[1] - sos[2],
     recent_off_ppp |-> recent,
     recent_def_ppp |-> IF recent = 0 THEN 0 ELSE def_ppp,
     recent_avg_pts |-> Div(tempo * recent, 1000)]

\* Profiles of a first pass (SOS fields zero) and of a second pass, of slow
\* and fast teams and of a team without a tempo, with and without recent
\* form, after no game, after one game and after twelve.
Profiles ==
    {SampleProfile(team, tempo, off_ppp, 1010, sos, recent, form) :
        team \in {"Duke", "UNC"}, tempo \in {0, 655, 721}, off_ppp \in {962, 1104},
        sos \in {<<0, 0>>, <<1032, 987>>}, recent \in {0, 1153},
        form \in {<<0, 0>>, <<1, 0>>, <<12, 95>>}}

\* The value of HOME_COURT_PPP when project_matchup runs: the module's own,
\* or zero where the caller has disabled the bonus.
HomeCourtSettings == {HOME_COURT_PPP, 0}

\* project_matchup(home, away)
CallProjectMatchup ==
    /\ fn_call = <<>>
    /\ \E home \in Profiles : \E away \in Profiles : \E hc \in HomeCourtSettings :
          /\ fn_call' = <<"project_matchup", home, away, hc>>
          /\ fn_result' = project_matchup(home, away, hc)
    /\ UNCHANGED notPureVars

\* The largest projected spread passed to logistic_win_prob, in points.
MaxSpread == 40

\* Spreads in millionths of a point, every tenth of a point.
Spreads == {100000 * t : t \in (-10 * MaxSpread)..(10 * MaxSpread)}

\* Spread standard deviations, in tenths.
SpreadStds == {100, 141}

\* logistic_win_prob(spread, spread_std)
CallLogistic ==
    /\ fn_call = <<>>
    /\ \E spread \in Spreads : \E spread_std \in SpreadStds :
          /\ fn_call' = <<"logistic_win_prob", spread, spread_std>>
          /\ fn_result' = logistic_win_prob(spread, spread_std)
    /\ UNCHANGED notPureVars

----------------------------------------------------------------------------
(* odds_normalizer.py: canonical team names for a GameOdds.  Team names are
   sequences of words here, "Over" and "Under" the one-word names. *)

\* The keys of the identity map: the canonical (ESPN display) names.
IdentityKeys ==
    { <<"Duke", "Blue", "Devils">>, <<"Purdue", "Boilermakers">>, <<"Gonzaga">>, <<"Butler">> }

\* resolve_ncaa_name on the identity map of the season: <<canonical>>, or
\* <<>> for a name it cannot resolve.
resolve_ncaa_name(ncaa_short) ==
    IF ncaa_short = "Duke" THEN << <<"Duke", "Blue", "Devils">> >>
    ELSE IF ncaa_short = "Purdue" THEN << <<"Purdue", "Boilermakers">> >>
    ELSE IF ncaa_short = "Gonzaga" THEN << <<"Gonzaga">> >>
    ELSE IF ncaa_short = "Butler" THEN << <<"Butler">> >>
    ELSE <<>>

\* resolve_odds_team_name: a key of the map is returned as it is, a one-word
\* name goes through resolve_ncaa_name; no other name of the feeds below is
\* part of a canonical name (lines 38-44).
resolve_odds_team_name(name) ==
    IF name = <<>> THEN <<>>
    ELSE IF name \in IdentityKeys THEN <<name>>
    ELSE IF Len(name) = 1 THEN resolve_ncaa_name(name[1])
    ELSE <<>>

\* name_map.get(n, n) for the dict literal of lines 67-72: of two equal keys
\* the later entry stays.
name_map(go, home_can, away_can, n) ==
    IF n = away_can THEN away_can
    ELSE IF n = home_can THEN home_can
    ELSE IF n = go.away_team THEN away_can
    ELSE IF n = go.home_team THEN home_can
    ELSE n

\* Mutant: the outcome rebuilt from name and price, its line lost.
renamed_outcome_without_point(oc, go, home_can, away_can) ==
    IF oc.name \in {<<"Over">>, <<"Under">>} THEN oc
    ELSE OddsOutcome(name_map(go, home_can, away_can, oc.name), oc.price, <<>>)

\* Lines 80-83: an Over/Under outcome is appended as it is, any other is
\* replaced by a copy with the mapped name.
renamed_outcome(oc, go, home_can, away_can) ==
    IF oc.name \in {<<"Over">>, <<"Under">>} THEN oc
    ELSE [oc EXCEPT !.name = name_map(go, home_can, away_can, @)]

\* canonicalize_game_odds(go, identity_map, desired_home, desired_away):
\* what it returns (<<>> for None) and the argument object after the call;
\* every replace() builds a new object and every list is a new list.
canonicalize_game_odds(go, desired_home, desired_away) ==
    LET home == resolve_odds_team_name(go.home_team)
        away == resolve_odds_team_name(go.away_team)
        new_market(mkt) ==
            [mkt EXCEPT !.outcomes =
                [i \in 1..Len(@) |-> renamed_outcome(@[i], go, home[1], away[1])]]
        new_book(bk) ==
            [bk EXCEPT !.markets = [i \in 1..Len(@) |-> new_market(@[i])]]
        new_books == [i \in 1..Len(go.bookmakers) |-> new_book(go.bookmakers[i])]
    IN [returned |->
            IF home = <<>> \/ away = <<>> THEN <<>>
            ELSE << [go EXCEPT !.home_team = IF desired_home # <<>> THEN desired_home[1] ELSE home[1],
                               !.away_team = IF desired_away # <<>> THEN desired_away[1] ELSE away[1],
                               !.bookmakers = new_books] >>,
        input_after |-> go]

\* Team names as the odds feed writes them: canonical, short, unknown, empty.
FeedNames ==
    { <<"Duke", "Blue", "Devils">>, <<"Duke">>, <<"Purdue", "Boilermakers">>, <<"Purdue">>,
      <<"Kansas", "City", "Roos">>, <<>> }

\* The bookmakers of a feed: none, one with moneyline and totals, or two, the
\* second with the spread quoted visitors first.
FeedBooks(home, away) ==
    LET first == BookmakerOdds(BookTitle(1),
                    << OddsMarket("h2h", <<OddsOutcome(home, -300, <<>>), OddsOutcome(away, 240, <<>>)>>),
                       OddsMarket("totals", <<OddsOutcome(<<"Over">>, -110, <<1455>>),
                                              OddsOutcome(<<"Under">>, -105, <<1455>>)>>) >>)
        second == BookmakerOdds(BookTitle(2),
                    << OddsMarket("spreads", <<OddsOutcome(away, -115, <<75>>),
                                               OddsOutcome(home, -105, <<-75>>)>>) >>)
    IN { <<>>, <<first>>, <<first, second>> }

\* desired_home / desired_away: not given, or a game of the scoreboard.
DesiredNames == {<<>>} \cup {<<k>> : k \in {<<"Duke", "Blue", "Devils">>, <<"Purdue", "Boilermakers">>}}

\* canonicalize_game_odds(go, identity_map, desired_home=..., desired_away=...)
CallCanonicalize ==
    /\ fn_call = <<>>
    /\ \E home \in FeedNames : \E away \in FeedNames : \E books \in FeedBooks(home, away) :
       \E desired_home \in DesiredNames : \E desired_away \in DesiredNames :
          /\ fn_call' = <<"canonicalize_game_odds", GameOdds(home, away, books),
                          desired_home, desired_away>>
          /\ fn_result' = canonicalize_game_odds(GameOdds(home, away, books),
                                                 desired_home, desired_away)
    /\ UNCHANGED notPureVars

NextPure == CallKelly \/ CallProjectMatchup \/ CallLogistic \/ CallCanonicalize

InitP == InitAnalysis /\ InitBatchIdle /\ invocations = <<>> /\ InitStatsIdle /\ InitLoopIdle /\ InitPure /\ InitLastIdle

SpecPure == InitP /\ [][NextPure]_vars

----------------------------------------------------------------------------
(* build_cache_parallel (SpecPool, FairSpecPool) *)

\* The longest team list, and the largest pool.
MaxTeams == 3

MaxWorkers == 2

TeamNames == <<"Duke", "UNC", "Kansas", "Baylor", "Gonzaga">>

\* The lists get_uncached_teams may return: distinct teams.
TeamLists == { [i \in 1..n |-> <<TeamNames[i], "id", 2025>>] : n \in 0..MaxTeams }

\* What get_or_fetch_team_season does in a worker: returns a frame with
\* games, returns an empty frame, or raises.
FetchOutcomes == {"games", "empty", "raises"}

\* fetch_team_data with the exception of the fetch let through.
fetch_team_data_uncaught(team_info, outcome) ==
    IF outcome = "raises" THEN [raised |-> TRUE, value |-> <<>>]
    ELSE IF outcome = "empty" THEN [raised |-> FALSE, value |-> <<team_info[1], FALSE, "empty dataframe">>]
    ELSE [raised |-> FALSE, value |-> <<team_info[1], TRUE, "games">>]

\* fetch_team_data: what the future holds, (team_name, success, message).
fetch_team_data(team_info, outcome) ==
    IF outcome = "raises" THEN [raised |-> FALSE, value |-> <<team_info[1], FALSE, "error">>]
    ELSE IF outcome = "empty" THEN [raised |-> FALSE, value |-> <<team_info[1], FALSE, "empty dataframe">>]
    ELSE [raised |-> FALSE, value |-> <<team_info[1], TRUE, "games">>]

\* A future as executor.submit returns it; calls counts the runs of
\* fetch_team_data for it (history).
NewFuture == [state |-> "queued", calls |-> 0, result |-> <<>>, counted |-> FALSE]

Running == {i \in 1..Len(futures) : futures[i].state = "running"}

Queued == {i \in 1..Len(futures) : futures[i].state = "queued"}

InitPool ==
    /\ teams \in TeamLists
    /\ max_workers \in 1..MaxWorkers
    /\ futures = <<>>
    /\ success_count = 0
    /\ fail_count = 0
    /\ pool_pc = "start"

\* Lines 66-69: nothing to fetch.
ReturnEarly ==
    /\ pool_pc = "start"
    /\ teams = <<>>
    /\ pool_pc' = "returned"
    /\ UNCHANGED <<teams, max_workers, futures, success_count, fail_count>>
    /\ UNCHANGED notPoolVars

\* Lines 79-80: executor.submit(fetch_team_data, team_info), one team after
\* the other.
Submit ==
    /\ pool_pc \in {"start", "submit"}
    /\ Len(futures) < Len(teams)
    /\ futures' = Append(futures, NewFuture)
    /\ pool_pc' = IF Len(futures) + 1 = Len(teams) THEN "collect" ELSE "submit"
    /\ UNCHANGED <<teams, max_workers, success_count, fail_count>>
    /\ UNCHANGED notPoolVars

\* A thread of the pool takes the oldest queued task; the pool has at most
\* max_workers threads.
StartFetch ==
    /\ Queued # {}
    /\ Cardinality(Running) < max_workers
    /\ LET i == CHOOSE q \in Queued : \A r \in Queued : q <= r
       IN futures' = [futures EXCEPT ![i].state = "running", ![i].calls = @ + 1]
    /\ UNCHANGED <<teams, max_workers, success_count, fail_count, pool_pc>>
    /\ UNCHANGED notPoolVars

\* fetch_team_data returns in its thread.
FinishFetch ==
    /\ \E i \in Running : \E outcome \in FetchOutcomes :
          futures' = [futures EXCEPT ![i].state = "done",
                                     ![i].result = fetch_team_data(teams[i], outcome)]
    /\ UNCHANGED <<teams, max_workers, success_count, fail_count, pool_pc>>
    /\ UNCHANGED notPoolVars

\* Lines 83-91: as_completed yields a finished future; future.result()
\* re-raises what the task raised, which leaves the function.
Collect ==
    /\ pool_pc = "collect"
    /\ \E i \in 1..Len(futures) :
          /\ futures[i].state = "done"
          /\ ~futures[i].counted
          /\ futures' = [futures EXCEPT ![i].counted = TRUE]
          /\ IF futures[i].result.raised
             THEN /\ pool_pc' = "raised"
                  /\ UNCHANGED <<success_count, fail_count>>
             ELSE /\ pool_pc' = pool_pc
                  /\ success_count' = IF futures[i].result.value[2] THEN success_count + 1
                                      ELSE success_count
                  /\ fail_count' = IF futures[i].result.value[2] THEN fail_count
                                   ELSE fail_count + 1
    /\ UNCHANGED <<teams, max_workers>>
    /\ UNCHANGED notPoolVars

\* Lines 96-97: the loop is over and the executor has shut down.
Complete ==
    /\ pool_pc = "collect"
    /\ \A i \in 1..Len(futures) : futures[i].counted
    /\ pool_pc' = "done"
    /\ UNCHANGED <<teams, max_workers, futures, success_count, fail_count>>
    /\ UNCHANGED notPoolVars

NextPool == ReturnEarly \/ Submit \/ StartFetch \/ FinishFetch \/ Collect \/ Complete

InitPl == InitAnalysis /\ InitBatchIdle /\ invocations = <<>> /\ InitStatsIdle /\ InitLoopIdle /\ InitPure /\ InitPool /\ InitTrackerIdle

SpecPool == InitPl /\ [][NextPool]_vars

\* The pool's threads run, every fetch terminates, and the main thread goes on.
FairSpecPool == SpecPool /\ WF_vars(NextPool)

----------------------------------------------------------------------------
(* The picks database: pick_tracker.py and result_scraper.py (SpecTracker).
   A team name is the sequence of its words, a game label the sequence
   <<name, separator, name>>; lines are in tenths, profits in thousandths of
   a unit; NULL is <<>>. *)

\* short_name of quick_analysis.py: the name without its last word when it
\* has more than two words, else its first word.
short_name(full_name) ==
    IF Len(full_name) > 2 THEN SubSeq(full_name, 1, Len(full_name) - 1)
    ELSE IF full_name # <<>> THEN <<full_name[1]>> ELSE full_name

\* The games of the two dates as the analysis scripts know them (canonical
\* names; the teams of the second game have one-word display names).
TrackedGames ==
    << [date |-> 1, game_id |-> "g1", home |-> <<"Duke", "Blue", "Devils">>,
        away |-> <<"Purdue", "Boilermakers">>],
       [date |-> 2, game_id |-> "g2", home |-> <<"Gonzaga">>, away |-> <<"Butler">>] >>

\* The scoreboard of a date at some moment: its game not over, final, or
\* final with the score corrected afterwards.
ScoreboardVersions == {"early", "final", "corrected"}

Scoreboard(date, version) ==
    LET state == IF version = "early" THEN "live" ELSE "final"
        extra == IF version = "corrected" THEN 1 ELSE 0
    IN IF date = 1
       THEN << [gameState |-> state, home |-> "Duke", away |-> "Purdue",
                home_score |-> <<78 + extra>>, away_score |-> <<70>>] >>
       ELSE << [gameState |-> state, home |-> "Gonzaga", away |-> "Butler",
                home_score |-> <<81>>, away_score |-> <<84 + extra>>] >>

Scripts == {"daily", "odds_driven", "quick"}

\* The game string a script logs: bet.game, "Home vs Away", in
\* daily_analysis.py and odds_driven_analysis.py; "Away @ Home" with short
\* names in quick_analysis.py.
logged_game(script, g) ==
    IF script = "quick" THEN <<short_name(g.away), "@", short_name(g.home)>>
    ELSE <<g.home, "vs", g.away>>

\* The bets logged: <<bet_type, bet_side, line, odds>>.
PickBets ==
    { <<"spread", "away", <<-30>>, -110>>,
      <<"total", "over", <<1455>>, -110>>,
      <<"moneyline", "away", <<>>, 240>> }

\* The row log_pick inserts for Pick(..., result='pending').
Pick(script, g, bet) ==
    [game_id |-> IF script = "quick" THEN g.game_id ELSE logged_game(script, g),
     date |-> g.date,
     game |-> logged_game(script, g),
     bet_type |-> bet[1],
     bet_side |-> bet[2],
     line |-> bet[3],
     odds |-> bet[4],
     result |-> "pending",
     profit |-> <<>>]

check_spread_result(pick_side, pick_line, home_score, away_score) ==
    LET margin == IF pick_side = "home" THEN 10 * home_score + pick_line - 10 * away_score
                  ELSE 10 * away_score + pick_line - 10 * home_score
    IN IF Abs(margin) < 5 THEN "push" ELSE IF margin > 0 THEN "win" ELSE "loss"

check_total_result(pick_side, pick_line, home_score, away_score) ==
    LET actual_total == 10 * (home_score + away_score)
    IN IF Abs(actual_total - pick_line) < 5 THEN "push"
       ELSE IF pick_side = "over" THEN (IF actual_total > pick_line THEN "win" ELSE "loss")
       ELSE (IF actual_total < pick_line THEN "win" ELSE "loss")

check_moneyline_result(pick_side, home_score, away_score) ==
    IF pick_side = "home" THEN (IF home_score > away_score THEN "win" ELSE "loss")
    ELSE (IF away_score > home_score THEN "win" ELSE "loss")

\* calculate_profit(result, odds, stake=1.0); the odds logged are not 0.
calculate_profit(result, odds) ==
    IF result = "push" THEN 0
    ELSE IF result = "win" THEN (IF odds > 0 THEN 10 * odds ELSE Div(100000, Abs(odds)))
    ELSE -1000

\* Lines 99-132: the entry of game_results for a key, <<>> if there is none;
\* a later game of the scoreboard replaces an earlier one with the same key.
game_results(scoreboard, key) ==
    LET usable(g) == /\ g.gameState = "final"
                     /\ resolve_ncaa_name(g.home) # <<>>
                     /\ resolve_ncaa_name(g.away) # <<>>
                     /\ g.home_score # <<>> /\ g.away_score # <<>>
        key_of(g) == <<resolve_ncaa_name(g.away)[1], "@", resolve_ncaa_name(g.home)[1]>>
        hits == {i \in 1..Len(scoreboard) : usable(scoreboard[i]) /\ key_of(scoreboard[i]) = key}
    IN IF hits = {} THEN <<>>
       ELSE << scoreboard[CHOOSE i \in hits : \A j \in hits : j <= i] >>

\* Every pick of the date, graded or not.
picks_to_grade_any_result(rows, date) == {i \in 1..Len(rows) : rows[i].date = date}

\* Lines 142-148: SELECT ... WHERE date = ? AND result = 'pending'.
picks_to_grade(rows, date) ==
    {i \in 1..Len(rows) : rows[i].date = date /\ rows[i].result = "pending"}

\* Lines 155-187 for one pick: the row after the loop body.
graded(row, scoreboard) ==
    LET found == game_results(scoreboard, row.game)
        hs == found[1].home_score[1]
        as == found[1].away_score[1]
        result == IF row.bet_type = "spread"
                    THEN check_spread_result(row.bet_side, row.line[1], hs, as)
                  ELSE IF row.bet_type = "total"
                    THEN check_total_result(row.bet_side, row.line[1], hs, as)
                  ELSE check_moneyline_result(row.bet_side, hs, as)
    IN IF found = <<>> THEN row
       ELSE IF row.bet_type \notin {"spread", "total", "moneyline"} THEN row
       ELSE [row EXCEPT !.result = result, !.profit = <<calculate_profit(result, row.odds)>>]

\* update_pick_results(date): the table afterwards.
update_pick_results(rows, date, scoreboard) ==
    [i \in 1..Len(rows) |->
        IF i \in picks_to_grade(rows, date) THEN graded(rows[i], scoreboard) ELSE rows[i]]

\* The rows the summary query counts: WHERE result IS NOT NULL. A row's
\* result is a string, the SQL NULL written "NULL"; 'pending' is not NULL.
summary_rows(rows) == SelectSeq(rows, LAMBDA r : r.result # "NULL")

\* get_performance_summary: Returned(<<dict>>), Returned(<<>>) for None, or
\* the exception raised; SUM(profit) is NULL when no counted row has a profit,
\* and NULL / total_picks is a TypeError (line 119).
get_performance_summary(rows) ==
    LET counted == summary_rows(rows)
        total == Len(counted)
        count(res) == Len(SelectSeq(counted, LAMBDA r : r.result = res))
        with_profit == SelectSeq(counted, LAMBDA r : r.profit # <<>>)
        total_profit == SumSeq([i \in 1..Len(with_profit) |-> with_profit[i].profit[1]])
    IN IF total = 0 THEN Returned(<<>>)
       ELSE IF with_profit = <<>> THEN Raised("TypeError")
       ELSE Returned(<<[total_picks |-> total,
                        wins |-> count("win"),
                        losses |-> count("loss"),
                        pushes |-> count("push"),
                        win_rate |-> Div(1000 * count("win"), total),
                        total_profit |-> total_profit,
                        roi |-> Div(total_profit, total)]>>)

\* The most picks in the table.
MaxPicks == 2

\* tracker.log_pick(pick) in one of the analysis scripts.
LogPick ==
    /\ Len(picks) < MaxPicks
    /\ \E script \in Scripts : \E g \in 1..Len(TrackedGames) : \E bet \in PickBets :
          picks' = Append(picks, Pick(script, TrackedGames[g], bet))
    /\ UNCHANGED <<last_run, summary>>
    /\ UNCHANGED notTrackerVars

\* update_pick_results(date), on the scoreboard of the moment.
UpdatePickResults ==
    /\ \E date \in {1, 2} : \E version \in ScoreboardVersions :
          /\ picks' = update_pick_results(picks, date, Scoreboard(date, version))
          /\ last_run' = <<[date |-> date, scoreboard |-> Scoreboard(date, version)]>>
    /\ UNCHANGED summary
    /\ UNCHANGED notTrackerVars

\* tracker.get_performance_summary()
GetPerformanceSummary ==
    /\ summary' = <<get_performance_summary(picks)>>
    /\ UNCHANGED <<picks, last_run>>
    /\ UNCHANGED notTrackerVars

NextTracker == LogPick \/ UpdatePickResults \/ GetPerformanceSummary

InitT == InitAnalysis /\ InitBatchIdle /\ invocations = <<>> /\ InitStatsIdle /\ InitLoopIdle /\ InitPure /\ InitPoolIdle /\ InitTrackerIdle

SpecTracker == InitT /\ [][NextTracker]_vars

----------------------------------------------------------------------------
(* Claims about one analysis call (SpecAnalyze) *)

\* bets is ordered by safety score, best first.
NonIncreasingSafety(s) ==
    \A i \in 1..Len(s) : \A j \in 1..Len(s) :
        i < j => s[i].safety_score >= s[j].safety_score

\* C6: the list returned by analyze_game_value_all_books, and the one
\* returned by analyze_game_value, is ordered by safety score, non-increasing,
\* across all markets and bookmakers of the game.
C6_AnalysisSortedBySafety ==
    fn # "none" => NonIncreasingSafety(bets)

\* C6 witness: a call returned bets of several markets and two bookmakers
\* with differing scores, and the order in which the analyzers produced them
\* was not the order returned.
C6_Witness ==
    /\ fn = "all_books"
    /\ Len(bets) >= 4
    /\ \E i, j \in 1..Len(bets) :
          /\ bets[i].safety_score > bets[j].safety_score
          /\ bets[i].bookmaker # bets[j].bookmaker
          /\ bets[i].bet_type # bets[j].bet_type
    /\ bets # all_books_bets(projection, game_odds)

\* The bet type an analyzer gives a market key, and the side it gives an
\* outcome name.
BetTypeOf(key) ==
    IF key = "spreads" THEN "spread" ELSE IF key = "totals" THEN "total" ELSE "moneyline"

SideNames(go, key) ==
    IF key = "totals" THEN {<<"Over", "over">>, <<"Under", "under">>}
    ELSE {<<go.home_team, "home">>, <<go.away_team, "away">>}

\* Bookmaker b of the feed quotes the side on the market (for spreads and
\* totals: with its line).
Quoted(go, b, key, name) ==
    \E m \in 1..Len(go.bookmakers[b].markets) :
        /\ go.bookmakers[b].markets[m].key = key
        /\ \E o \in 1..Len(go.bookmakers[b].markets[m].outcomes) :
              LET oc == go.bookmakers[b].markets[m].outcomes[o]
              IN oc.name = name /\ (key = "h2h" \/ oc.point # <<>>)

BetsFor(s, bet_type, bet_side, title) ==
    {i \in 1..Len(s) : /\ s[i].bet_type = bet_type
                       /\ s[i].bet_side = bet_side
                       /\ s[i].bookmaker = title}

QuotedCombos(go) ==
    {c \in (1..Len(go.bookmakers)) \X {1, 2, 3} \X {"home", "away", "over", "under"} :
        \E sn \in SideNames(go, MarketKeys[c[2]]) :
            sn[2] = c[3] /\ Quoted(go, c[1], MarketKeys[c[2]], sn[1])}

\* C9: analyze_game_value_all_books returns exactly one opportunity per
\* (market, side, bookmaker) quoted in the feed and nothing else, so no two
\* opportunities share (bet_type, bet_side, bookmaker) and a feed of N
\* bookmakers yields at most 6*N opportunities.
C9_OnePerMarketSideBook ==
    fn = "all_books" =>
        /\ \A b \in 1..Len(game_odds.bookmakers) : \A k \in 1..3 :
             \A sn \in SideNames(game_odds, MarketKeys[k]) :
                Cardinality(BetsFor(bets, BetTypeOf(MarketKeys[k]), sn[2],
                                    game_odds.bookmakers[b].title))
                    = IF Quoted(game_odds, b, MarketKeys[k], sn[1]) THEN 1 ELSE 0
        /\ Len(bets) = Cardinality(QuotedCombos(game_odds))
        /\ Len(bets) <= 6 * Len(game_odds.bookmakers)
        /\ \A i, j \in 1..Len(bets) :
             (/\ bets[i].bet_type = bets[j].bet_type
              /\ bets[i].bet_side = bets[j].bet_side
              /\ bets[i].bookmaker = bets[j].bookmaker) => i = j

\* C9 witness: two bookmakers, each quoting the three markets with both
\* sides and every line, gave 12 opportunities.
C9_Witness ==
    /\ fn = "all_books"
    /\ Len(game_odds.bookmakers) = 2
    /\ \A b \in 1..2 : \A k \in 1..3 : \A sn \in SideNames(game_odds, MarketKeys[k]) :
          Quoted(game_odds, b, MarketKeys[k], sn[1])
    /\ Len(bets) = 12

\* The analysis the call of the state ran, on another feed.
Reanalyze(go) ==
    IF fn = "all_books" THEN analyze_game_value_all_books(projection, go)
    ELSE analyze_game_value(projection, go)

RemoveAt(s, i) == SubSeq(s, 1, i - 1) \o SubSeq(s, i + 1, Len(s))

\* The feed without outcome o of market m of bookmaker b.
WithoutOutcome(go, b, m, o) ==
    [go EXCEPT !.bookmakers[b].markets[m].outcomes = RemoveAt(@, o)]

\* Outcome o of market m of bookmaker b is a spreads/totals outcome whose
\* line is missing.
LineMissing(go, b, m, o) ==
    /\ go.bookmakers[b].markets[m].key \in {"spreads", "totals"}
    /\ go.bookmakers[b].markets[m].outcomes[o].point = <<>>

OutcomePlaces(go) ==
    {p \in (1..Len(go.bookmakers)) \X (1..3) \X (1..2) :
        /\ p[2] <= Len(go.bookmakers[p[1]].markets)
        /\ p[3] <= Len(go.bookmakers[p[1]].markets[p[2]].outcomes)}

LacksMarket(go, b, key) ==
    \A m \in 1..Len(go.bookmakers[b].markets) : go.bookmakers[b].markets[m].key # key

\* C10: missing market data is skipped.  A spreads/totals outcome without a
\* line gives no opportunity and the list returned is the one returned for
\* the feed without that outcome; a bookmaker that lacks a market gives no
\* opportunity of that market, and one that quotes no market at all changes
\* nothing.
C10_MissingDataSkipped ==
    fn # "none" =>
        /\ \A p \in OutcomePlaces(game_odds) :
             LineMissing(game_odds, p[1], p[2], p[3]) =>
                LET mkt == game_odds.bookmakers[p[1]].markets[p[2]]
                IN /\ \A sn \in SideNames(game_odds, mkt.key) :
                        sn[1] = mkt.outcomes[p[3]].name =>
                            BetsFor(bets, BetTypeOf(mkt.key), sn[2],
                                    game_odds.bookmakers[p[1]].title) = {}
                   /\ bets = Reanalyze(WithoutOutcome(game_odds, p[1], p[2], p[3]))
        /\ \A b \in 1..Len(game_odds.bookmakers) :
             /\ \A k \in 1..3 :
                  LacksMarket(game_odds, b, MarketKeys[k]) =>
                     \A i \in 1..Len(bets) :
                        ~(/\ bets[i].bookmaker = game_odds.bookmakers[b].title
                          /\ bets[i].bet_type = BetTypeOf(MarketKeys[k]))
             /\ game_odds.bookmakers[b].markets = <<>> =>
                  bets = Reanalyze([game_odds EXCEPT !.bookmakers = RemoveAt(@, b)])

\* C10 witness: the feed held a spread outcome without a line and a bookmaker
\* lacking the totals market, and the call still returned the other
\* opportunities.
C10_Witness ==
    /\ fn = "all_books"
    /\ \E p \in OutcomePlaces(game_odds) :
          /\ LineMissing(game_odds, p[1], p[2], p[3])
          /\ game_odds.bookmakers[p[1]].markets[p[2]].key = "spreads"
    /\ \E b \in 1..Len(game_odds.bookmakers) :
          /\ LacksMarket(game_odds, b, "totals")
          /\ ~LacksMarket(game_odds, b, "h2h")
    /\ Len(bets) >= 3

----------------------------------------------------------------------------
(* Claims about select_best_bets in the batch pipeline (Spec) *)

\* The input list of the call, as positions, and what the claims speak of.
InputIds == Range(all_opportunities)

ResultIds == Range(results)

KeyOf(id) == <<emitted[id].game, emitted[id].bet_type, emitted[id].bet_side>>

TypeSide(id) == <<emitted[id].bet_type, emitted[id].bet_side>>

Safety(id) == emitted[id].safety_score

Edge(id) == emitted[id].edge_pct

GamesOf(ids) == {emitted[id].game : id \in ids}

\* The deduplicated opportunities: per key, the first input opportunity
\* whose safety score no other of the key exceeds.
DedupedIds ==
    {all_opportunities[i] : i \in
        {i \in 1..Len(all_opportunities) :
            \A j \in 1..Len(all_opportunities) :
                KeyOf(all_opportunities[j]) = KeyOf(all_opportunities[i]) =>
                    /\ Safety(all_opportunities[j]) <= Safety(all_opportunities[i])
                    /\ j < i => Safety(all_opportunities[j]) < Safety(all_opportunities[i])}}

BestSafety(g) ==
    CHOOSE m \in {Safety(id) : id \in {x \in InputIds : emitted[x].game = g}} :
        \A id \in InputIds : emitted[id].game = g => Safety(id) <= m

\* C1: select_best_bets never returns two opportunities with the same
\* (game, bet_type, bet_side) key and never more than 2 opportunities of one
\* game, for any top_n.
C1_NoDuplicateKeyAtMostTwoPerGame ==
    pc = "selected" =>
        /\ \A i, j \in 1..Len(results) :
              KeyOf(results[i]) = KeyOf(results[j]) => i = j
        /\ \A g \in GamesOf(ResultIds) :
              Cardinality({i \in 1..Len(results) : emitted[results[i]].game = g}) <= 2

\* C1 witness: the input held the same key from two bookmakers and a game
\* with three or more keys, and the call returned two picks for each of two
\* games.
C1_Witness ==
    /\ pc = "selected"
    /\ \E a, b \in InputIds : a # b /\ KeyOf(a) = KeyOf(b)
    /\ \E g \in GamesOf(InputIds) :
          Cardinality({KeyOf(id) : id \in {x \in InputIds : emitted[x].game = g}}) >= 3
    /\ Len(results) = 4
    /\ Cardinality(GamesOf(ResultIds)) = 2

\* C2: every game in the result has exactly one pick tagged "safe", with the
\* maximum safety score of the game's deduplicated opportunities; it has a
\* second pick, tagged "value", iff a deduplicated opportunity of the game
\* differs from the safe pick in (bet_type, bet_side), and that pick has the
\* maximum edge among those.
C2_SafeAndValuePerGame ==
    pc = "selected" =>
        \A g \in GamesOf(ResultIds) :
            LET R == {id \in ResultIds : emitted[id].game = g}
                D == {id \in DedupedIds : emitted[id].game = g}
                safes == {id \in R : heap[id].category = "safe"}
                values == {id \in R : heap[id].category = "value"}
            IN /\ Cardinality(safes) = 1
               /\ R = safes \cup values
               /\ \A s \in safes :
                    LET others == {id \in D : TypeSide(id) # TypeSide(s)}
                    IN /\ s \in D
                       /\ \A id \in D : Safety(id) <= Safety(s)
                       /\ (values # {}) <=> (others # {})
                       /\ Cardinality(values) <= 1
                       /\ \A v \in values :
                            /\ v \in others
                            /\ \A id \in others : Edge(id) <= Edge(v)

\* C2 witness: a game came back with a safe and a value pick where the value
\* pick is not the second-safest deduplicated bet of the game; another game
\* came back with a safe pick alone.
C2_Witness ==
    /\ pc = "selected"
    /\ \E s, v \in ResultIds :
          /\ heap[s].category = "safe" /\ heap[v].category = "value"
          /\ emitted[s].game = emitted[v].game
          /\ \E id \in DedupedIds :
                /\ emitted[id].game = emitted[v].game
                /\ TypeSide(id) # TypeSide(s)
                /\ Safety(id) > Safety(v)
    /\ \E s \in ResultIds :
          /\ heap[s].category = "safe"
          /\ \A id \in ResultIds : id # s => emitted[id].game # emitted[s].game

\* C3: a returned opportunity has the maximum safety score of all input
\* opportunities of its (game, bet_type, bet_side) key.
C3_BestBookmakerPerKey ==
    pc = "selected" =>
        \A r \in ResultIds : \A id \in InputIds :
            KeyOf(id) = KeyOf(r) => Safety(id) <= Safety(r)

\* C3 witness: a returned opportunity is the better of two quotes of its key,
\* posted by two bookmakers.
C3_Witness ==
    /\ pc = "selected"
    /\ \E r \in ResultIds : \E id \in InputIds :
          /\ KeyOf(id) = KeyOf(r)
          /\ Safety(id) < Safety(r)
          /\ emitted[id].bookmaker # emitted[r].bookmaker

\* C4: for top_n >= 0 the result draws on at most top_n games, so holds at
\* most 2*top_n opportunities, and no game left out has a best safety score
\* strictly greater than that of a game in the result.
C4_TopGamesByBestSafety ==
    (pc = "selected" /\ top_n >= 0) =>
        /\ Cardinality(GamesOf(ResultIds)) <= top_n
        /\ Len(results) <= 2 * top_n
        /\ Cardinality(GamesOf(ResultIds)) =
              IF Cardinality(GamesOf(InputIds)) < top_n
              THEN Cardinality(GamesOf(InputIds)) ELSE top_n
        /\ \A out \in GamesOf(InputIds) \ GamesOf(ResultIds) :
              \A in \in GamesOf(ResultIds) : BestSafety(out) <= BestSafety(in)

\* C4 witness: with top_n = 1 and two games in the input, the game that was
\* analyzed second had the better best safety score and is the one returned.
C4_Witness ==
    /\ pc = "selected"
    /\ top_n = 1
    /\ Cardinality(GamesOf(InputIds)) = 2
    /\ GamesOf(ResultIds) = {emitted[all_opportunities[Len(all_opportunities)]].game}
    /\ \E out \in GamesOf(InputIds) \ GamesOf(ResultIds) :
          \A in \in GamesOf(ResultIds) : BestSafety(out) < BestSafety(in)

\* C5: the list select_best_bets returns is ordered by safety score,
\* non-increasing, across games and tags.
C5_ResultSortedBySafety ==
    pc = "selected" =>
        \A i, j \in 1..Len(results) :
            i < j => heap[results[i]].safety_score >= heap[results[j]].safety_score

\* C5 witness: the picks were made in another order than the one returned:
\* the value pick of the first game ranks below the safe pick of the second.
C5_Witness ==
    /\ pc = "selected"
    /\ Len(results) = 4
    /\ results # picked_ids(assigned)
    /\ heap[results[1]].category = "safe"
    /\ heap[results[2]].category = "safe"
    /\ heap[results[1]].game # heap[results[2]].game
    /\ heap[results[2]].safety_score > heap[results[3]].safety_score

\* C7: the analyzers emit every opportunity with category ""; and
\* select_best_bets changes no field but category, assigns it at most once
\* per opportunity in a call and only to opportunities it returns, and leaves
\* every returned opportunity tagged "safe" or "value".
C7_OnlyCategoryAssignedOnce ==
    /\ Len(heap) = Len(emitted)
    /\ \A id \in 1..Len(emitted) :
          /\ emitted[id].category = ""
          /\ [heap[id] EXCEPT !.category = ""] = emitted[id]
          /\ heap[id].category # "" => \E i \in 1..Len(assigned) : assigned[i][1] = id
    /\ pc # "selected" => heap = emitted
    /\ \A i, j \in 1..Len(assigned) : assigned[i][1] = assigned[j][1] => i = j
    /\ \A i \in 1..Len(assigned) : assigned[i][1] \in ResultIds
    /\ \A id \in ResultIds : heap[id].category \in {"safe", "value"}

\* C7 witness: a call tagged some opportunities of its input and left
\* others, of the same games, untouched.
C7_Witness ==
    /\ pc = "selected"
    /\ Len(assigned) = 4
    /\ \E id \in InputIds \ ResultIds :
          /\ heap[id].category = ""
          /\ emitted[id].game \in GamesOf(ResultIds)
    /\ \E id \in ResultIds : heap[id] # emitted[id]

----------------------------------------------------------------------------
(* Claims about concurrent invocations (SpecConc) *)

\* What invocation w does when it runs alone on the objects as emitted.
SoloHeap(w) ==
    apply_assignments(emitted, category_assignments(emitted, invocations[w].list, CallerTopN))

SoloResult(w) == select_best_bets(emitted, invocations[w].list, CallerTopN)

SoloTags(w) == LET h == SoloHeap(w) IN [i \in 1..Len(SoloResult(w)) |-> h[SoloResult(w)[i]].category]

TagsNow(ids) == [i \in 1..Len(ids) |-> heap[ids[i]].category]

SharesObjects(w) ==
    \E v \in Workers \ {w} : Range(invocations[w].list) \cap Range(invocations[v].list) # {}

\* C8 as claimed: under any interleaving, also of invocations whose lists
\* hold the same objects, no invocation modifies its inputs and what each
\* returns, the category tags of the returned opportunities included, is what
\* it returns when it runs alone.
C8_PureAndSameAsAlone ==
    /\ heap = emitted
    /\ \A w \in Workers :
          invocations[w].pc = "done" =>
              /\ invocations[w].returned = SoloResult(w)
              /\ TagsNow(invocations[w].returned) = SoloTags(w)

\* C8 amended: select_best_bets writes the category of the opportunities it
\* picks and nothing else; under any interleaving each invocation returns
\* the opportunities, in the order, it returns alone; and their tags are
\* those of the run alone whenever no other invocation's list holds an
\* object of its list.
C8_OnlyCategoryShared ==
    /\ \A id \in 1..Len(heap) :
          /\ [heap[id] EXCEPT !.category = ""] = emitted[id]
          /\ heap[id].category # "" =>
                \E w \in Workers : \E i \in 1..Len(invocations[w].picked) :
                    invocations[w].picked[i] = id
    /\ \A w \in Workers :
          invocations[w].pc = "done" =>
              /\ invocations[w].returned = SoloResult(w)
              /\ ~SharesObjects(w) => TagsNow(invocations[w].returned) = SoloTags(w)

\* C8 witness: both workers returned, their lists held the same objects, and
\* an opportunity one of them returned no longer carries the tag that worker
\* gave it.
C8_Witness ==
    /\ \A w \in Workers : invocations[w].pc = "done"
    /\ \E w \in Workers :
          /\ SharesObjects(w)
          /\ invocations[w].returned = SoloResult(w)
          /\ TagsNow(invocations[w].returned) # SoloTags(w)

----------------------------------------------------------------------------
(* Claims about the stats pipeline (SpecStats) *)

\* The rows of the game log that belong to the team.
TeamRows == SelectSeq(game_log.rows, LAMBDA r : r.team = StatsTeam)

\* C11: build_team_profile raises ValueError whenever the game log holds no
\* row of the team, the empty log of a fetch that found nothing included, and
\* otherwise returns a profile whose games_played is the number of the
\* team's rows, at least 1.
C11_ValueErrorWhenNoRows ==
    stats_pc \in {"raw", "built"} =>
        IF TeamRows = <<>>
        THEN raw_profile.raised = "ValueError"
        ELSE /\ raw_profile.raised = ""
             /\ raw_profile.value.games_played = Len(TeamRows)
             /\ raw_profile.value.games_played >= 1

----------------------------------------------------------------------------
(* Claims about the try/except of the batch loop (SpecLoop) *)

\* The bets the games that got through contributed, in slate order.
CollectedFrom(outs) ==
    LET g[i \in 0..Len(outs)] ==
            IF i = 0 THEN <<>>
            ELSE IF outs[i].result = <<"analyzed">> THEN g[i - 1] \o outs[i].kept
            ELSE g[i - 1]
    IN g[Len(outs)]

\* all_opportunities as the objects it holds.
CollectedNow == [i \in 1..Len(all_opportunities) |-> heap[all_opportunities[i]]]

GameFailed(i) == game_outcomes[i].result # <<"analyzed">>

\* C12: a failure while processing one game of the batch loop is confined to
\* that game: the loop goes on to the next game, every game of the slate is
\* processed once and in order, and all_opportunities holds exactly the bets
\* of the games that got through, as if the failing games were not on the
\* slate.
C12_FailureConfinedToGame ==
    stage # "idle" =>
        /\ Len(game_outcomes) = next_game - 1
        /\ \A i \in 1..Len(game_outcomes) : game_outcomes[i].game = i
        /\ CollectedNow = CollectedFrom(game_outcomes)
        /\ \A i \in 1..Len(game_outcomes) :
              GameFailed(i) =>
                  \A b \in Range(CollectedNow) :
                      b.game # <<Slate[i][1], "vs", Slate[i][2]>>

\* C12 witness: the loop is over; one game raised during analysis, after
\* its projection was made, and a later game's bets were collected.
C12_Witness ==
    /\ stage # "idle"
    /\ next_game > Len(Slate)
    /\ \E i, j \in 1..Len(game_outcomes) :
          /\ i < j
          /\ game_outcomes[i].result = <<"raised", "analyze">>
          /\ game_outcomes[j].result = <<"analyzed">>
          /\ game_outcomes[j].kept # <<>>
          /\ all_opportunities # <<>>

----------------------------------------------------------------------------
(* Claims about the numeric functions (SpecPure) *)

\* The sign of the Kelly expression (b*p - q)/b - c for b > 0, without the
\* division: b = 100/|odds| for odds < 0 and odds/100 otherwise; p, c in
\* thousandths.  Positive, zero or negative as the expression exceeds c.
KellyMinus(p, odds, c) ==
    IF odds < 0 THEN 100 * (p - c) - (1000 - p) * Abs(odds)
    ELSE odds * (p - c) - (1000 - p) * 100

\* C13: compute_kelly_fraction returns a value in [0, 0.05] for all odds and
\* all probabilities in [0, 1]; 0 whenever the Kelly expression is negative,
\* 0.05 whenever it exceeds 0.05.
C13_KellyWithinCap ==
    (fn_call # <<>> /\ fn_call[1] = "compute_kelly_fraction") =>
        LET p == fn_call[2]
            odds == fn_call[3]
        IN /\ fn_result >= 0 /\ fn_result <= 50
           /\ (odds # 0 /\ KellyMinus(p, odds, 0) < 0) => fn_result = 0
           /\ (odds # 0 /\ KellyMinus(p, odds, 50) > 0) => fn_result = 50
           /\ odds = 0 => fn_result = 0

\* C13 witness: an underdog price at which the Kelly expression exceeds
\* 0.05 and the fraction returned is the cap.
C13_Witness ==
    /\ fn_call # <<>> /\ fn_call[1] = "compute_kelly_fraction"
    /\ fn_call[3] > 0
    /\ KellyMinus(fn_call[2], fn_call[3], 50) > 0
    /\ fn_result = 50

\* The call of the state is project_matchup.
ProjectionMade == fn_call # <<>> /\ fn_call[1] = "project_matchup"

\* C14: every MatchupProjection returned by project_matchup has
\* proj_total = home_pts + away_pts and proj_spread = away_pts - home_pts,
\* with home_pts = proj_tempo * home_ppp and away_pts = proj_tempo * away_ppp,
\* so proj_spread < 0 exactly when the home team is projected to score more.
C14_TotalAndSpreadFromPoints ==
    ProjectionMade =>
        /\ fn_result.proj_total = fn_result.home_pts + fn_result.away_pts
        /\ fn_result.proj_spread = fn_result.away_pts - fn_result.home_pts
        /\ fn_result.home_pts = fn_result.proj_tempo * fn_result.home_ppp
        /\ fn_result.away_pts = fn_result.proj_tempo * fn_result.away_ppp
        /\ (fn_result.proj_spread < 0) = (fn_result.home_pts > fn_result.away_pts)

\* C14 witness: a projection of two different teams in which the visitors are
\* projected to score more, so the spread is positive.
C14_Witness ==
    /\ ProjectionMade
    /\ fn_call[2].team # fn_call[3].team
    /\ fn_result.away_pts > fn_result.home_pts
    /\ fn_result.proj_spread > 0
    /\ fn_result.proj_total > fn_result.proj_spread

\* The call of the state is logistic_win_prob.
LogisticCalled == fn_call # <<>> /\ fn_call[1] = "logistic_win_prob"

\* C15: home_win_prob is a function of proj_spread only (the standard
\* deviation passed along does not change it), lies in [0, 1], is strictly
\* decreasing as proj_spread increases, is exactly 0.5 at proj_spread = 0 and
\* so exceeds 0.5 exactly when proj_spread < 0; a projection's home_win_prob
\* is that function of its proj_spread.
C15_WinProbDecreasingInSpread ==
    /\ LogisticCalled =>
          /\ fn_result >= 0 /\ fn_result <= 1000000
          /\ \A std \in SpreadStds : logistic_win_prob(fn_call[2], std) = fn_result
          /\ \A s \in Spreads :
                s > fn_call[2] => logistic_win_prob(s, fn_call[3]) < fn_result
          /\ fn_call[2] = 0 => fn_result = 500000
          /\ (fn_result > 500000) = (fn_call[2] < 0)
    /\ ProjectionMade =>
          /\ \A std \in SpreadStds :
                fn_result.home_win_prob = logistic_win_prob(fn_result.proj_spread, std)
          /\ fn_result.home_win_prob >= 0 /\ fn_result.home_win_prob <= 1000000
          /\ (fn_result.home_win_prob > 500000) = (fn_result.proj_spread < 0)
          /\ fn_result.proj_spread = 0 => fn_result.home_win_prob = 500000

\* C15 witness: the home side favoured by 11 points wins with a probability
\* of about 87%.
C15_Witness ==
    /\ LogisticCalled
    /\ fn_call[2] = -11000000
    /\ fn_result > 870000 /\ fn_result < 875000

\* The opponents the team faced, by the game log.
Faced == {TeamRows[i].opponent : i \in 1..Len(TeamRows)}

\* The sum of a field of the profiles the mapping holds for a set of names.
RECURSIVE SumOfField(_, _, _)
SumOfField(m, names, field) ==
    IF names = {} THEN 0
    ELSE LET o == CHOOSE x \in names : TRUE
         IN m[o][field] + SumOfField(m, names \ {o}, field)

\* v is the mean of the field over the names, to the nearest thousandth.
IsMeanOver(v, m, names, field) ==
    2 * Abs(Cardinality(names) * v - SumOfField(m, names, field)) <= Cardinality(names)

SosFieldNames == {"sos_off_ppp", "sos_def_ppp", "sos_eff_margin"}

\* C16: SOS fields are populated only in the second pass.  The profile built
\* without opponent_profiles, or with a mapping holding none of the opponents
\* faced, has the three SOS fields zero; with a mapping they are the averages
\* over the faced opponents present in it, each opponent once, and
\* sos_eff_margin = sos_off_ppp - sos_def_ppp; every other field is the same
\* in both passes.
C16_SosOnlyInSecondPass ==
    /\ (stats_pc \in {"raw", "built"} /\ raw_profile.raised = "") =>
          \A f \in SosFieldNames : raw_profile.value[f] = 0
    /\ stats_pc = "built" =>
          /\ sos_profile.raised = ""
          /\ \A f \in DOMAIN raw_profile.value \ SosFieldNames :
                sos_profile.value[f] = raw_profile.value[f]
          /\ DOMAIN sos_profile.value = DOMAIN raw_profile.value
          /\ LET known == IF opp_map = <<>> THEN {} ELSE Faced \cap DOMAIN opp_map[1]
                 p == sos_profile.value
             IN IF known = {}
                THEN \A f \in SosFieldNames : p[f] = 0
                ELSE /\ IsMeanOver(p.sos_off_ppp, opp_map[1], known, "off_ppp")
                     /\ IsMeanOver(p.sos_def_ppp, opp_map[1], known, "def_ppp")
                     /\ p.sos_eff_margin = p.sos_off_ppp - p.sos_def_ppp

\* C16 witness: the team met one opponent of the mapping twice and another
\* once, the mapping also holding nobody else it met; the second pass filled
\* the SOS fields and the first had left them zero.
C16_Witness ==
    /\ stats_pc = "built"
    /\ opp_map # <<>>
    /\ Cardinality(Faced \cap DOMAIN opp_map[1]) = 2
    /\ Len(TeamRows) = 3
    /\ sos_profile.value.sos_off_ppp > 0
    /\ sos_profile.value.sos_eff_margin # 0
    /\ raw_profile.value.sos_off_ppp = 0

\* The statuses of a game that is not over.
NotFinal == {"STATUS_SCHEDULED", "STATUS_IN_PROGRESS"}

\* The game log holds a row of the event's game.
HasRowsOf(event) ==
    /\ event.box # <<>>
    /\ \E i \in 1..Len(game_log.rows) : \E j \in 1..Len(event.box[1]) :
          /\ game_log.rows[i].date = event.box[1][j].date
          /\ game_log.rows[i].team = event.box[1][j].team
          /\ game_log.rows[i].pts_for = event.box[1][j].pts_for

\* C17: a game log is built from completed games only: an event of the
\* schedule whose status is not final, scheduled or in progress, contributes
\* no rows to what fetch_team_season_data returns.
C17_OnlyCompletedGames ==
    log_source = "fetch" =>
        \A k \in 1..Len(schedule) :
            schedule[k].status \in NotFinal => ~HasRowsOf(schedule[k])

\* The call of the state projected a team against itself.
SelfMatchup == ProjectionMade /\ fn_call[2] = fn_call[3]

\* C18: project_matchup(P, P) is symmetric apart from the home-court bonus:
\* home_ppp - away_ppp is the bonus, 0.045, hence
\* proj_spread = -0.045 * proj_tempo; with the bonus set to zero
\* proj_spread = 0 and home_win_prob = 0.5.
C18_SelfMatchupSymmetric ==
    SelfMatchup =>
        /\ fn_result.home_ppp - fn_result.away_ppp = 100 * fn_call[4]
        /\ fn_result.proj_spread = -(100 * fn_call[4]) * fn_result.proj_tempo
        /\ fn_call[4] = HOME_COURT_PPP =>
              /\ fn_result.home_ppp - fn_result.away_ppp = 4500
              /\ fn_result.proj_spread = -4500 * fn_result.proj_tempo
              /\ fn_result.home_win_prob > 500000
        /\ fn_call[4] = 0 =>
              /\ fn_result.proj_spread = 0
              /\ fn_result.home_win_prob = 500000
              /\ fn_result.home_pts = fn_result.away_pts
        /\ fn_call[2].avg_possessions > 0 => fn_result.proj_tempo = fn_call[2].avg_possessions
        /\ fn_result.home_fta = fn_result.away_fta
        /\ fn_result.home_pts_std = fn_result.away_pts_std

\* C18 witness: a second-pass profile with recent form projected against
\* itself with the bonus: the home side is favoured by 0.045 * 72.1 points.
C18_Witness ==
    /\ SelfMatchup
    /\ fn_call[2].sos_def_ppp > 0
    /\ fn_call[2].recent_off_ppp > 0
    /\ fn_call[2].avg_possessions = 721
    /\ fn_call[4] = HOME_COURT_PPP
    /\ fn_result.proj_spread = -3244500

\* v is n / d to the nearest thousandth.
IsRatio(v, n, d) == 2 * Abs(v * d - 1000 * n) <= d

\* The fields of one opportunity agree with one another.
Consistent(b) ==
    /\ IF b.book_odds < 0
       THEN IsRatio(b.implied_prob, Abs(b.book_odds), Abs(b.book_odds) + 100)
       ELSE IsRatio(b.implied_prob, 100, b.book_odds + 100)
    /\ b.edge_pct = b.model_win_prob - b.implied_prob
    /\ (b.confidence = "high") = (b.edge_pct >= 100)
    /\ (b.confidence = "medium") = (b.edge_pct >= 50 /\ b.edge_pct < 100)
    /\ (b.confidence = "low") = (b.edge_pct < 50)
    /\ b.in_preferred_range = (b.book_odds >= -400 /\ b.book_odds <= -250)
    /\ b.safety_score = 60 * b.model_win_prob + 25 * b.edge_pct
                          + 15 * (IF b.in_preferred_range THEN 1000 ELSE 0)

\* C19: every BetOpportunity the analyzers emit is consistent: implied_prob
\* is |o|/(|o|+100) for negative odds o and 100/(o+100) otherwise,
\* edge_pct = model_win_prob - implied_prob, confidence is high iff
\* edge_pct >= 0.10, medium iff 0.05 <= edge_pct < 0.10 and low otherwise,
\* in_preferred_range iff -400 <= book_odds <= -250, and
\* safety_score = 0.60*model_win_prob + 0.25*edge_pct + 0.15*(bonus).
C19_OpportunityConsistent ==
    fn # "none" => \A i \in 1..Len(bets) : Consistent(bets[i])

\* C19 witness: one call emitted opportunities of all three confidence
\* tiers, one of them with a negative edge, at odds inside and outside the
\* preferred range, negative and positive.
C19_Witness ==
    /\ fn # "none"
    /\ \A c \in {"high", "medium", "low"} : \E i \in 1..Len(bets) : bets[i].confidence = c
    /\ \E i \in 1..Len(bets) : bets[i].edge_pct < 0
    /\ \E i \in 1..Len(bets) : bets[i].in_preferred_range
    /\ \E i \in 1..Len(bets) : ~bets[i].in_preferred_range /\ bets[i].book_odds < 0
    /\ \E i \in 1..Len(bets) : bets[i].book_odds > 0

\* C20: every row of a game log returned by get_or_fetch_team_season, freshly
\* fetched or read back from the CSV cache, has fga > 0 and a positive
\* possession estimate FGA - ORB + TOV + 0.475*FTA, so unplayed games never
\* enter a profile and off_ppp and def_ppp are always defined.
C20_RowsPlayedWithPossessions ==
    log_source # "none" =>
        \A i \in 1..Len(game_log.rows) :
            LET r == game_log.rows[i]
            IN /\ r.fga > 0
               /\ 1000 * (r.fga - r.orb + r.tov) + 475 * r.fta > 0
               /\ r.poss # <<>> /\ r.poss[1] > 0
               /\ r.off_ppp # <<>> /\ r.def_ppp # <<>>

\* C20 witness: the log was read back from a CSV of the older schema that
\* held an unplayed row and a row with a negative possession estimate; both
\* were dropped and the two rows left got their possessions and PPP.
C20_Witness ==
    /\ log_source = "cache"
    /\ cache # <<>>
    /\ cache[1].columns = "raw"
    /\ \E i \in 1..Len(cache[1].rows) : cache[1].rows[i].fga = 0
    /\ \E i \in 1..Len(cache[1].rows) :
          cache[1].rows[i].fga > 0 /\ estimate_possessions(cache[1].rows[i]) <= 0
    /\ Len(game_log.rows) = 2

----------------------------------------------------------------------------
(* Claims about degenerate profiles (SpecPure) *)

\* The fields of a MatchupProjection.
ProjectionFields ==
    {"home_team", "away_team", "proj_tempo", "home_ppp", "away_ppp", "home_pts",
     "away_pts", "proj_total", "proj_spread", "home_fta", "away_fta", "total_std",
     "spread_std", "home_pts_std", "away_pts_std", "home_win_prob",
     "home_pts_ci_lo", "home_pts_ci_hi", "away_pts_ci_lo", "away_pts_ci_hi",
     "total_ci_lo", "total_ci_hi", "spread_ci_lo", "spread_ci_hi"}

\* C21: project_tempo is the harmonic mean 2*t1*t2/(t1+t2) when both average
\* possessions are positive and max(t1, t2, 65.0) otherwise, so the projected
\* tempo is strictly positive for every profile pair and project_matchup
\* returns a complete projection.
C21_TempoFlooredNeverFails ==
    ProjectionMade =>
        LET t1 == fn_call[2].avg_possessions
            t2 == fn_call[3].avg_possessions
            tempo == fn_result.proj_tempo
        IN /\ (t1 > 0 /\ t2 > 0) =>
                 2 * Abs(tempo * (t1 + t2) - 2 * t1 * t2) <= t1 + t2
           /\ (t1 <= 0 \/ t2 <= 0) =>
                 /\ tempo >= t1 /\ tempo >= t2 /\ tempo >= 650
                 /\ tempo \in {t1, t2, 650}
           /\ tempo > 0
           /\ DOMAIN fn_result = ProjectionFields
           /\ fn_result.home_pts = tempo * fn_result.home_ppp

\* C21 witness: neither profile has a tempo, the projection is made at 65.0
\* possessions and has a positive total.
C21_Witness ==
    /\ ProjectionMade
    /\ fn_call[2].avg_possessions = 0
    /\ fn_call[3].avg_possessions = 0
    /\ fn_result.proj_tempo = 650
    /\ fn_result.proj_total > 0

\* s is pts_for_std * sqrt(30 / max(games_played, 1)) floored at 6.0, the
\* product rounded down to a tenth.
IsPenalisedStd(s, profile) ==
    LET n == IF profile.games_played >= 1 THEN profile.games_played ELSE 1
        sq == (30 * profile.pts_for_std * profile.pts_for_std) \div n
    IN /\ s >= 60
       /\ s > 60 => (s * s <= sq /\ (s + 1) * (s + 1) > sq)
       /\ s = 60 => sq < 61 * 61

\* C22: the uncertainty floors hold for every projection: home_pts_std and
\* away_pts_std are at least 6.0, total_std and spread_std at least 10.0 and
\* equal, for any games_played (0 and 1 included) and any historical
\* standard deviation (0 included); so compute_model_win_prob never takes its
\* fallback for a non-positive standard deviation on a projection's
\* spread_std or total_std.
C22_UncertaintyFloors ==
    ProjectionMade =>
        /\ fn_result.home_pts_std >= 60
        /\ fn_result.away_pts_std >= 60
        /\ fn_result.total_std >= 100
        /\ fn_result.spread_std >= 100
        /\ fn_result.total_std = fn_result.spread_std
        /\ IsPenalisedStd(fn_result.home_pts_std, fn_call[2])
        /\ IsPenalisedStd(fn_result.away_pts_std, fn_call[3])
        /\ \A std \in {fn_result.spread_std, fn_result.total_std} :
              /\ std > 0
              /\ \A x \in {-35, 0, 80} :
                    compute_model_win_prob(x, 0, std) = NormCdf(x, std)

\* C22 witness: a home profile without games and without a standard
\* deviation against a visitor with twelve games: the home floor of 6.0
\* applies, the visitors' penalised 9.5 * sqrt(30/12) = 15.0 does not.
C22_Witness ==
    /\ ProjectionMade
    /\ fn_call[2].games_played = 0
    /\ fn_call[2].pts_for_std = 0
    /\ fn_call[3].games_played = 12
    /\ fn_result.home_pts_std = 60
    /\ fn_result.away_pts_std = 150
    /\ fn_result.total_std = 161

----------------------------------------------------------------------------
(* Claims about the profile's free throws (SpecStats) *)

\* The rows of the opponent of the team's i-th game, by position in the log.
OpponentRowsOf(i) ==
    {j \in 1..Len(game_log.rows) :
        /\ game_log.rows[j].team = TeamRows[i].opponent
        /\ game_log.rows[j].date = TeamRows[i].date}

\* The team's games that have a row of the opponent.
MatchedGames == {i \in 1..Len(TeamRows) : OpponentRowsOf(i) # {}}

\* The free throws, in tenths, of the first opponent row of each matched game.
OpponentFta ==
    [i \in MatchedGames |->
        [fta |-> 10 * game_log.rows[CHOOSE j \in OpponentRowsOf(i) :
                                       \A k \in OpponentRowsOf(i) : j <= k].fta]]

\* C23: avg_opp_fta is the mean, over the team's games that have a row of
\* the opponent with the same date in the game log, of that row's FTA; when
\* no game has such a row it is the team's own avg_fta; build_team_profile
\* does not fail because opponent rows are missing.
C23_OpponentFtaTolerant ==
    (stats_pc \in {"raw", "built"} /\ TeamRows # <<>>) =>
        /\ raw_profile.raised = ""
        /\ IF MatchedGames = {}
           THEN raw_profile.value.avg_opp_fta = raw_profile.value.avg_fta
           ELSE IsMeanOver(raw_profile.value.avg_opp_fta, OpponentFta, MatchedGames, "fta")

\* C23 witness: the opponent's row is in the log for one of the team's games
\* and missing for another; the average is taken over the first only and
\* differs from the team's own.
C23_Witness ==
    /\ stats_pc = "raw"
    /\ Len(TeamRows) = 2
    /\ Cardinality(MatchedGames) = 1
    /\ raw_profile.raised = ""
    /\ raw_profile.value.avg_opp_fta = 160
    /\ raw_profile.value.avg_fta = 220

----------------------------------------------------------------------------
(* Claims about the cache builder (FairSpecPool) *)

\* The tasks that have returned, and those of them that succeeded.
DoneTasks == {i \in 1..Len(futures) : futures[i].state = "done"}

Succeeded == {i \in DoneTasks : ~futures[i].result.raised /\ futures[i].result.value[2]}

\* Never more than max_workers fetches run, no team is fetched twice, a
\* fetch that raised is that team's failure, and when the run is over every
\* team was fetched once and counted once.
PoolSafe ==
    /\ Cardinality(Running) <= max_workers
    /\ Len(futures) <= Len(teams)
    /\ \A i \in 1..Len(futures) :
          /\ futures[i].calls = (IF futures[i].state = "queued" THEN 0 ELSE 1)
          /\ futures[i].state = "done" =>
                /\ ~futures[i].result.raised
                /\ futures[i].result.value[1] = teams[i][1]
    /\ pool_pc # "raised"
    /\ success_count + fail_count = Cardinality({i \in 1..Len(futures) : futures[i].counted})
    /\ pool_pc = "done" =>
          /\ Len(futures) = Len(teams)
          /\ \A i \in 1..Len(teams) : futures[i].calls = 1 /\ futures[i].state = "done"
          /\ success_count + fail_count = Len(teams)
          /\ success_count = Cardinality(Succeeded)

\* C24: build_cache_parallel fetches every team of its input exactly once
\* with a bounded pool: never more than max_workers fetches run, an
\* exception in one team's fetch is that team's failure and does not abort
\* the others, and, every fetch terminating, the run terminates with
\* success_count + fail_count equal to the number of teams.
C24_BoundedPoolCountsEveryTeam ==
    /\ []PoolSafe
    /\ <>(pool_pc \in {"done", "returned"})

\* C24 witness: three teams and two workers; one fetch gave games, one an
\* empty frame and one raised, and the run ended with 1 success and 2
\* failures.
C24_Witness ==
    /\ pool_pc = "done"
    /\ Len(teams) = 3
    /\ max_workers = 2
    /\ success_count = 1
    /\ fail_count = 2
    /\ \E i \in 1..3 : futures[i].result.value[3] = "error"
    /\ \E i \in 1..3 : futures[i].result.value[3] = "empty dataframe"

----------------------------------------------------------------------------
(* Claims about the picks database (SpecTracker) *)

GradedResults == {"win", "loss", "push"}

\* The step is a run of update_pick_results.
ScraperRan == last_run' # <<>> /\ Len(picks') = Len(picks) /\ summary' = summary

\* The game a logged row is about.
GameOfRow(row) ==
    {g \in 1..Len(TrackedGames) :
        \E script \in Scripts : row.game = logged_game(script, TrackedGames[g])}

\* The row's game is final on the scoreboard, both names resolvable.
FinalOn(row, scoreboard) ==
    \E g \in GameOfRow(row) : \E k \in 1..Len(scoreboard) :
        /\ scoreboard[k].gameState = "final"
        /\ resolve_ncaa_name(scoreboard[k].home) = <<TrackedGames[g].home>>
        /\ resolve_ncaa_name(scoreboard[k].away) = <<TrackedGames[g].away>>

\* C25: after update_pick_results has run for a date, every pick of that
\* date that was pending, as logged by the daily, odds-driven or quick
\* analysis script, and whose game is final on the date's scoreboard with
\* both team names resolvable, has result win, loss or push and a profit.
C25_FinalGamesGraded ==
    [][ScraperRan =>
          \A i \in 1..Len(picks) :
              (/\ picks[i].date = last_run'[1].date
               /\ picks[i].result = "pending"
               /\ FinalOn(picks[i], last_run'[1].scoreboard))
              => (picks'[i].result \in GradedResults /\ picks'[i].profit # <<>>)]_vars

\* C26: grading is write-once. A step changes a row of the picks table only
\* if the row was pending and of the date update_pick_results ran for; a
\* graded row and a row of another date are never changed, and no row is
\* removed.
C26_GradingWriteOnce ==
    [][/\ Len(picks') >= Len(picks)
       /\ \A i \in 1..Len(picks) :
             picks'[i] # picks[i] =>
                 /\ picks[i].result = "pending"
                 /\ last_run' # <<>>
                 /\ picks[i].date = last_run'[1].date]_vars

\* A pick graded a push on the final score keeps its grade after a run on
\* the corrected score, which would grade it a win.
C26_Witness ==
    /\ last_run = <<[date |-> 2, scoreboard |-> Scoreboard(2, "corrected")]>>
    /\ \E i \in 1..Len(picks) :
          /\ picks[i].date = 2
          /\ picks[i].result = "push"
          /\ graded([picks[i] EXCEPT !.result = "pending"], Scoreboard(2, "corrected")).result = "win"

\* The rows with a grade.
CompletedPicks(rows) == SelectSeq(rows, LAMBDA r : r.result \in GradedResults)

\* C27: get_performance_summary reports completed picks only: it returns
\* None while no pick has been graded, and otherwise total_picks is the
\* number of graded picks and equals wins + losses + pushes, pending picks
\* not counted.
C27_SummaryOfCompletedPicks ==
    [][summary' # summary =>
          LET s == summary'[1]
          IN /\ s.raised = ""
             /\ IF CompletedPicks(picks) = <<>> THEN s.value = <<>>
                ELSE /\ s.value # <<>>
                     /\ s.value[1].total_picks = Len(CompletedPicks(picks))
                     /\ s.value[1].total_picks
                          = s.value[1].wins + s.value[1].losses + s.value[1].pushes]_vars

----------------------------------------------------------------------------
(* Claims about the two probability models and the odds normalizer *)

\* Two bets of one bookmaker on the opposite sides of one market.
OppositeSides(a, b) ==
    /\ a.bookmaker = b.bookmaker
    /\ a.bet_type = b.bet_type
    /\ \/ a.bet_type = "moneyline" /\ a.bet_side = "home" /\ b.bet_side = "away"
       \/ a.bet_type = "total" /\ a.bet_side = "over" /\ b.bet_side = "under"
                               /\ a.book_line = b.book_line
       \/ a.bet_type = "spread" /\ a.bet_side = "home" /\ b.bet_side = "away"
                                /\ a.book_line = -b.book_line

\* C28: in the bets of one bookmaker's market the model probabilities of the
\* opposite sides are complementary: home and away moneyline, Over and Under
\* at the same total, home and away spread at opposite lines each sum to 1.
C28_OppositeSidesComplementary ==
    fn = "all_books" =>
        \A i, j \in 1..Len(bets) :
            OppositeSides(bets[i], bets[j])
                => bets[i].model_win_prob + bets[j].model_win_prob = 1000

\* One bookmaker's bets hold an opposite pair of each of the three markets,
\* none of them at even probability.
C28_Witness ==
    /\ fn = "all_books"
    /\ \A type \in {"moneyline", "total", "spread"} :
          \E i, j \in 1..Len(bets) :
              /\ OppositeSides(bets[i], bets[j])
              /\ bets[i].bet_type = type
              /\ bets[i].model_win_prob # 500

Sign(x) == IF x > 0 THEN 1 ELSE IF x < 0 THEN -1 ELSE 0

\* A projection of project_matchup in the units of the bet analyzers: points
\* and standard deviations in millionths of a point.
AsAnalyzed(proj) ==
    [proj EXCEPT !.spread_std = 100000 * @, !.total_std = 100000 * @]

\* The model_win_prob of the home moneyline bet on a projection.
HomeMoneylineProb(proj) ==
    moneyline_bets_of(AsAnalyzed(proj), GameOdds(proj.home_team, "Visitors", <<>>),
                      BookTitle(1), OddsOutcome(proj.home_team, -110, <<>>))[1].model_win_prob

\* C29: the two win-probability models agree on the favourite: the home
\* moneyline model_win_prob (normal CDF of the projected home margin over
\* spread_std) is above, at or below 0.5 exactly when the projection's
\* logistic home_win_prob is.
C29_ModelsAgreeOnFavourite ==
    ProjectionMade =>
        Sign(HomeMoneylineProb(fn_result) - 500) = Sign(fn_result.home_win_prob - 500000)

\* A projection with the home team favoured by both models.
C29_Witness ==
    /\ ProjectionMade
    /\ fn_result.home_pts > fn_result.away_pts
    /\ HomeMoneylineProb(fn_result) > 500
    /\ fn_result.home_win_prob > 500000

Canonicalized == fn_call # <<>> /\ fn_call[1] = "canonicalize_game_odds"

\* The name the claim gives an outcome of the result.
ClaimedName(go, n) ==
    IF n \in {<<"Over">>, <<"Under">>} THEN n
    ELSE IF n = go.home_team THEN resolve_odds_team_name(go.home_team)[1]
    ELSE IF n = go.away_team THEN resolve_odds_team_name(go.away_team)[1]
    ELSE n

\* The bookmakers, markets and outcomes of out are those of go, in order,
\* prices and lines the same and names as claimed.
SameQuotesRenamed(go, out) ==
    /\ Len(out.bookmakers) = Len(go.bookmakers)
    /\ \A b \in 1..Len(go.bookmakers) :
          LET bk == go.bookmakers[b]
              nb == out.bookmakers[b]
          IN /\ nb.title = bk.title
             /\ Len(nb.markets) = Len(bk.markets)
             /\ \A m \in 1..Len(bk.markets) :
                   LET mkt == bk.markets[m]
                       nm == nb.markets[m]
                   IN /\ nm.key = mkt.key
                      /\ Len(nm.outcomes) = Len(mkt.outcomes)
                      /\ \A o \in 1..Len(mkt.outcomes) :
                            /\ nm.outcomes[o].price = mkt.outcomes[o].price
                            /\ nm.outcomes[o].point = mkt.outcomes[o].point
                            /\ nm.outcomes[o].name = ClaimedName(go, mkt.outcomes[o].name)

====
